---- MODULE Spec2Model ----
(***************************************************************************)
(* Multi-agent orchestration runtime of ai-project-playbook                *)
(* (src/agent/factory): ParallelAgents, SequentialAgents, AgentHandoff,    *)
(* SupervisorPattern, LLMRouter / CostOptimizedRouter and AgentAsTool.     *)
(*                                                                         *)
(* Python objects that are shared by reference (lists, dicts, nested        *)
(* values) live in heaps and are named by their index.                     *)
(***************************************************************************)
EXTENDS Integers, Sequences, FiniteSets, TLC

(***************************************************************************)
(* Bounds of the model.                                                    *)
(***************************************************************************)
MaxWorkers == 2
MaxMutations == 2
MaxStages == 3
MaxHandoffs == 2
MaxIterations == 3
MaxToolCalls == 3
MaxHistory == 1
MaxKept == 1

(***************************************************************************)
(* Shared data model (src/agent/factory/base.py).                          *)
(***************************************************************************)
None == "None"
NoIndex == -1
NamePool == {"A", "B", "C", "D"}
\* the orders in which the workers may have been registered
RegistrationOrders == {<<"A", "B", "C", "D">>, <<"C", "A", "D", "B">>}
EmptyDict == [k \in {} |-> None]
NoMeta == [agent_name |-> None, stage_name |-> None, stage_index |-> NoIndex, routing |-> None]
NoResult == [none |-> TRUE]
OutcomeKinds == {"ok", "fail", "raise"}

\* AgentResult(success, output, data, errors, next_agent, metadata)
AgentResult(success, output, data, errors, next_agent, metadata) ==
  [success |-> success, output |-> output, data |-> data, errors |-> errors,
   next_agent |-> next_agent, metadata |-> metadata]

\* AgentContext: the two containers are held by reference
AgentContext(task, prevRef, stateRef, iteration) ==
  [task |-> task, previous_results |-> prevRef, shared_state |-> stateRef,
   current_iteration |-> iteration]

\* what the worker registered as `name` answers when it does not raise; the workers of
\* agent/specialized put their own name in metadata
WorkerResult(name, kind, next, data) ==
  AgentResult(kind = "ok", "output of " \o name, data,
              IF kind = "ok" THEN <<>> ELSE <<"error of " \o name>>,
              next, [NoMeta EXCEPT !.agent_name = name])

\* str(e) of the exception the worker called `name` raises
ExcMessage(name) == "exception in " \o name

SetMeta(result, key, value) ==
  [result EXCEPT !.metadata = [result.metadata EXCEPT ![key] = value]]

\* sep.join(strs)
RECURSIVE Join(_, _)
Join(strs, sep) ==
  IF Len(strs) = 0 THEN ""
  ELSE IF Len(strs) = 1 THEN strs[1]
  ELSE strs[1] \o sep \o Join(Tail(strs), sep)

RECURSIVE Concat(_)
Concat(seqs) == IF Len(seqs) = 0 THEN <<>> ELSE seqs[1] \o Concat(Tail(seqs))

RECURSIVE SelectIdx(_, _, _)
SelectIdx(s, Keep(_), k) ==
  IF k > Len(s) THEN <<>>
  ELSE (IF Keep(s[k]) THEN <<s[k]>> ELSE <<>>) \o SelectIdx(s, Keep, k + 1)

InjectiveSeqs(S, n) == {f \in [1..n -> S] : \A i, j \in 1..n : i # j => f[i] # f[j]}

(***************************************************************************)
(* The state: one object of each pattern, with the call that runs on it.   *)
(***************************************************************************)
\* ParallelAgents
VARIABLES
  p_names,       \* self._agents keys, in registration order
  p_failFast,    \* self.fail_fast
  p_pc,          \* "idle", "waiting", "returned"
  p_status,      \* per branch: "running", "completed", "cancelled"
  p_taskResult,  \* per branch: what its _execute_agent task returned
  p_pending,     \* _execute_fail_fast: pending
  p_results,     \* _execute_fail_fast: results
  p_order,       \* indices of the branches in the order they completed
  p_aggCalled,   \* the aggregator has been called
  p_aggInput,    \* the list handed to the aggregator
  p_ret,         \* what execute() returned
  p_lists,       \* heap of list objects (previous_results containers)
  p_dicts,       \* heap of dict objects (shared_state containers)
  p_cells,       \* heap of nested mutable values (AgentResult, nested collections)
  p_callerCtx,   \* the context the caller passed to execute()
  p_callerView,  \* the caller's context, by value, when execute() was called
  p_ctx,         \* per branch: the context handed to it
  p_expect,      \* per branch: its context by value, changed by its own mutations only
  p_mutLeft      \* mutations the branches may still perform

parVars == <<p_names, p_failFast, p_pc, p_status, p_taskResult, p_pending, p_results,
             p_order, p_aggCalled, p_aggInput, p_ret, p_lists, p_dicts, p_cells,
             p_callerCtx, p_callerView, p_ctx, p_expect, p_mutLeft>>

\* SequentialAgents
VARIABLES
  s_stages,      \* self._stages: the stage names, in pipeline order
  s_stop,        \* self.stop_on_failure
  s_execLog,     \* self._execution_log
  s_call,        \* per execute() call: its local variables and its position
  s_heap         \* one execute() call with its contexts held as objects: the context
                 \* objects, the list and dict objects they refer to, and its position

seqVars == <<s_stages, s_stop, s_execLog, s_call, s_heap>>

\* AgentHandoff
VARIABLES
  h_registry,    \* the names self.registry knows
  h_history,     \* self._handoff_history
  h_call         \* the execute_with_handoff() call: its local variables and its position

hoVars == <<h_registry, h_history, h_call>>

\* SupervisorPattern
VARIABLES
  u_workers,     \* self._workers keys, in registration order
  u_maxIter,     \* self.max_iterations
  u_default,     \* self.decision_fn is _default_decision
  u_execLog,     \* self._execution_log
  u_call         \* per execute() call: its local variables and its position

supVars == <<u_workers, u_maxIter, u_default, u_execLog, u_call>>

\* AgentAsTool
VARIABLES
  t_callCount,   \* self._call_count
  t_ctx,         \* the context object the caller passes, when it passes one
  t_last,        \* the last call: what the worker did, and what the call gave back
  t_pc           \* "idle", "returned", "raised"

toolVars == <<t_callCount, t_ctx, t_last, t_pc>>

\* LLMRouter / CostOptimizedRouter
VARIABLES
  r_names,       \* the keys of self._agents (and _keywords, _roles, _tiers), in dict order
  r_keywords,    \* self._keywords
  r_roles,       \* self._roles
  r_tiers,       \* self._tiers
  r_default,     \* self.default_agent
  r_threshold,   \* self.cost_threshold of a CostOptimizedRouter, NoThreshold for an LLMRouter
  r_history,     \* self._routing_history
  r_last,        \* the last direct route() call since the registrations last changed
  r_exec         \* the last execute() call: what it gave back

rtVars == <<r_names, r_keywords, r_roles, r_tiers, r_default, r_threshold, r_history,
            r_last, r_exec>>

vars == <<parVars, seqVars, hoVars, supVars, toolVars, rtVars>>

\* what an operation of one pattern leaves alone: the objects of the other patterns
parOthers == <<seqVars, hoVars, supVars, toolVars, rtVars>>
seqOthers == <<parVars, hoVars, supVars, toolVars, rtVars>>
hoOthers == <<parVars, seqVars, supVars, toolVars, rtVars>>
supOthers == <<parVars, seqVars, hoVars, toolVars, rtVars>>
toolOthers == <<parVars, seqVars, hoVars, supVars, rtVars>>
rtOthers == <<parVars, seqVars, hoVars, supVars, toolVars>>

(***************************************************************************)
(* ParallelAgents (src/agent/factory/patterns/parallel.py).                *)
(***************************************************************************)
StateKeys == {"k1", "k2"}
PN == Len(p_names)

\* a context by value: every reference followed
View(ctx, lists, dicts, cells) ==
  [previous_results |-> [n \in 1..Len(lists[ctx.previous_results]) |->
                           cells[lists[ctx.previous_results][n]]],
   shared_state |-> [k \in DOMAIN dicts[ctx.shared_state] |->
                       cells[dicts[ctx.shared_state][k]]]]

\* no copy is made: the branch is given the list it was to copy, the last one allocated
CopyList_Alias(lists, ref) == lists

\* list.copy() / dict.copy(): a new container holding the same references
CopyList(lists, ref) == Append(lists, lists[ref])

CopyDict(dicts, ref) == Append(dicts, dicts[ref])

\* execute, lines 89-101: the contexts of the branches, one copy per branch
RECURSIVE FanOut(_, _, _, _)
FanOut(n, ctx, lists, dicts) ==
  IF n = 0 THEN [lists |-> lists, dicts |-> dicts, ctxs |-> <<>>]
  ELSE LET prev == FanOut(n - 1, ctx, lists, dicts)
           l2 == CopyList(prev.lists, ctx.previous_results)
           d2 == CopyDict(prev.dicts, ctx.shared_state)
       IN [lists |-> l2, dicts |-> d2,
           ctxs |-> Append(prev.ctxs,
                           AgentContext(ctx.task, Len(l2), Len(d2), ctx.current_iteration))]

\* the exception is turned into a failure that does not say what was raised
ExecuteAgent_Silent(name, kind) ==
  IF kind = "raise"
  THEN AgentResult(FALSE, "Agent " \o name \o " raised exception", EmptyDict,
                   <<>>, None, [NoMeta EXCEPT !.agent_name = name])
  ELSE SetMeta(WorkerResult(name, kind, None, EmptyDict), "agent_name", name)

\* _execute_agent: the worker's result labelled, or its exception as a failed result
ExecuteAgent(name, kind) ==
  IF kind = "raise"
  THEN AgentResult(FALSE, "Agent " \o name \o " raised exception", EmptyDict,
                   <<ExcMessage(name)>>, None, [NoMeta EXCEPT !.agent_name = name])
  ELSE SetMeta(WorkerResult(name, kind, None, EmptyDict), "agent_name", name)

CancelledResult(name) ==
  AgentResult(FALSE, "Cancelled due to fail-fast", EmptyDict, <<"Cancelled">>, None,
              [NoMeta EXCEPT !.agent_name = name])

\* str(self.timeout) for the default timeout of 120.0 seconds
TimeoutText == "120.0"

\* execute, lines 112-117
TimeoutResult ==
  AgentResult(FALSE, "Parallel execution timed out", EmptyDict,
              <<"Timeout after " \o TimeoutText \o "s">>, None, NoMeta)

\* _execute_fail_fast, lines 185-192
FillCancelled(results, names) ==
  [i \in 1..Len(results) |->
     IF results[i] = NoResult THEN CancelledResult(names[i]) ELSE results[i]]

\* _execute_fail_fast, lines 174-193: the completed tasks of one wake-up, taken in `order`
RECURSIVE FailFastLoop(_, _, _, _, _)
FailFastLoop(results, order, k, taskResult, names) ==
  IF k > Len(order) THEN [results |-> results, returned |-> FALSE]
  ELSE LET idx == order[k]
           res1 == [results EXCEPT ![idx] = taskResult[idx]]
       IN IF ~taskResult[idx].success
          THEN [results |-> FillCancelled(res1, names), returned |-> TRUE]
          ELSE FailFastLoop(res1, order, k + 1, taskResult, names)

\* the tasks still pending are left running
CancelPending_Forgotten(status, pending) == status

\* _execute_fail_fast, lines 182-183: every task still pending is cancelled
CancelPending(status, pending) ==
  [i \in 1..Len(status) |-> IF i \in pending THEN "cancelled" ELSE status[i]]

\* an exception that gather(return_exceptions=True) put in the place of a result
IsException(r) == "exc" \in DOMAIN r

\* execute, lines 120-131: one labelled entry per name, in the order of agent_names
ProcessResults(names, results) ==
  [i \in 1..Len(names) |->
     IF IsException(results[i])
     THEN AgentResult(FALSE, "Agent " \o names[i] \o " failed", EmptyDict,
                      <<results[i].exc>>, None, [NoMeta EXCEPT !.agent_name = names[i]])
     ELSE SetMeta(results[i], "agent_name", names[i])]

\* _default_aggregator
DefaultAggregator(results) ==
  LET IsOk(r) == r.success
      IsBad(r) == ~r.success
  IN [success |-> \A i \in 1..Len(results) : results[i].success,
      output |-> Join([i \in 1..Len(results) |->
                         "## " \o results[i].metadata.agent_name \o "\n" \o results[i].output],
                      "\n\n"),
      data |-> [n \in {results[i].metadata.agent_name : i \in 1..Len(results)} |->
                  (LET last == CHOOSE i \in 1..Len(results) :
                                 /\ results[i].metadata.agent_name = n
                                 /\ \A j \in 1..Len(results) :
                                      results[j].metadata.agent_name = n => j <= i
                   IN results[last].data)],
      errors |-> Concat([i \in 1..Len(results) |-> results[i].errors]),
      next_agent |-> None,
      metadata |-> [agent_count |-> Len(results),
                    success_count |-> Len(SelectIdx(results, IsOk, 1)),
                    failure_count |-> Len(SelectIdx(results, IsBad, 1))]]

\* the state after construction and registration; `mutations` bounds what the workers
\* do to their contexts
ParConstructed(mutations) ==
  /\ \E n \in 0..MaxWorkers, o \in RegistrationOrders : p_names = SubSeq(o, 1, n)
  /\ p_pc = "idle"
  /\ p_status = <<>>
  /\ p_taskResult = <<>>
  /\ p_pending = {}
  /\ p_results = <<>>
  /\ p_order = <<>>
  /\ p_aggCalled = FALSE
  /\ p_aggInput = <<>>
  /\ p_ret = NoResult
  /\ p_cells = <<<<>>, <<>>>>
  /\ p_lists = << <<1>> >>
  /\ p_dicts = << [k \in {"k1"} |-> 2] >>
  /\ p_callerCtx = AgentContext("task", 1, 1, 0)
  /\ p_callerView = View(p_callerCtx, p_lists, p_dicts, p_cells)
  /\ p_ctx = <<>>
  /\ p_expect = <<>>
  /\ p_mutLeft = mutations

ParInit == ParConstructed(0) /\ p_failFast \in BOOLEAN

ParCtxInit == ParConstructed(MaxMutations) /\ p_failFast = FALSE

NoAgentsResult ==
  AgentResult(FALSE, "No agents to execute", EmptyDict,
              <<"ParallelAgents has no agents configured">>, None, NoMeta)

\* execute, lines 78-83: nothing is registered
ParStartEmpty ==
  /\ UNCHANGED parOthers
  /\ p_pc = "idle" /\ PN = 0
  /\ p_ret' = NoAgentsResult
  /\ p_pc' = "returned"
  /\ UNCHANGED <<p_names, p_failFast, p_status, p_taskResult, p_pending, p_results, p_order,
                 p_aggCalled, p_aggInput, p_lists, p_dicts, p_cells, p_callerCtx,
                 p_callerView, p_ctx, p_expect, p_mutLeft>>

\* execute, lines 85-111: the branch contexts are built and the tasks are started
ParStart ==
  /\ UNCHANGED parOthers
  /\ p_pc = "idle" /\ PN > 0
  /\ LET fan == FanOut(PN, p_callerCtx, p_lists, p_dicts)
     IN /\ p_lists' = fan.lists
        /\ p_dicts' = fan.dicts
        /\ p_ctx' = fan.ctxs
        /\ p_expect' = [i \in 1..PN |-> View(fan.ctxs[i], fan.lists, fan.dicts, p_cells)]
  /\ p_callerView' = View(p_callerCtx, p_lists, p_dicts, p_cells)
  /\ p_status' = [i \in 1..PN |-> "running"]
  /\ p_taskResult' = [i \in 1..PN |-> NoResult]
  /\ p_pending' = IF p_failFast THEN 1..PN ELSE {}
  /\ p_results' = [i \in 1..PN |-> NoResult]
  /\ p_pc' = "waiting"
  /\ UNCHANGED <<p_names, p_failFast, p_order, p_aggCalled, p_aggInput, p_ret, p_cells,
                 p_callerCtx, p_mutLeft>>

parCtl == <<p_names, p_failFast, p_pc, p_status, p_taskResult, p_pending, p_results,
            p_order, p_aggCalled, p_aggInput, p_ret>>

\* a running worker appends a result of its own to context.previous_results
BranchAppendPrevious(i) ==
  /\ UNCHANGED parOthers
  /\ p_pc = "waiting" /\ p_status[i] = "running" /\ p_mutLeft > 0
  /\ p_cells' = Append(p_cells, <<i>>)
  /\ p_lists' = [p_lists EXCEPT ![p_ctx[i].previous_results] = Append(@, Len(p_cells) + 1)]
  /\ p_expect' = [p_expect EXCEPT ![i].previous_results = Append(@, <<i>>)]
  /\ p_mutLeft' = p_mutLeft - 1
  /\ UNCHANGED <<parCtl, p_dicts, p_callerCtx, p_callerView, p_ctx>>

\* a running worker sets context.shared_state[key]
BranchSetKey(i, key) ==
  /\ UNCHANGED parOthers
  /\ p_pc = "waiting" /\ p_status[i] = "running" /\ p_mutLeft > 0
  /\ p_cells' = Append(p_cells, <<i>>)
  /\ p_dicts' = [p_dicts EXCEPT ![p_ctx[i].shared_state] = (key :> (Len(p_cells) + 1)) @@ @]
  /\ p_expect' = [p_expect EXCEPT ![i].shared_state = (key :> <<i>>) @@ @]
  /\ p_mutLeft' = p_mutLeft - 1
  /\ UNCHANGED <<parCtl, p_lists, p_callerCtx, p_callerView, p_ctx>>

\* a running worker removes context.shared_state[key]
BranchDelKey(i, key) ==
  /\ UNCHANGED parOthers
  /\ p_pc = "waiting" /\ p_status[i] = "running" /\ p_mutLeft > 0
  /\ key \in DOMAIN p_dicts[p_ctx[i].shared_state]
  /\ p_dicts' = [p_dicts EXCEPT ![p_ctx[i].shared_state] =
                                  [k \in DOMAIN @ \ {key} |-> @[k]]]
  /\ p_expect' = [p_expect EXCEPT ![i].shared_state = [k \in DOMAIN @ \ {key} |-> @[k]]]
  /\ p_mutLeft' = p_mutLeft - 1
  /\ UNCHANGED <<parCtl, p_lists, p_cells, p_callerCtx, p_callerView, p_ctx>>

\* a running worker changes a nested collection stored in context.shared_state[key]
BranchMutateNested(i, key) ==
  /\ UNCHANGED parOthers
  /\ p_pc = "waiting" /\ p_status[i] = "running" /\ p_mutLeft > 0
  /\ key \in DOMAIN p_dicts[p_ctx[i].shared_state]
  /\ p_cells' = [p_cells EXCEPT ![p_dicts[p_ctx[i].shared_state][key]] = Append(@, i)]
  /\ p_expect' = [p_expect EXCEPT ![i].shared_state[key] = Append(@, i)]
  /\ p_mutLeft' = p_mutLeft - 1
  /\ UNCHANGED <<parCtl, p_lists, p_dicts, p_callerCtx, p_callerView, p_ctx>>

\* a running worker changes a collection inside context.previous_results[n]
BranchMutateResult(i, n) ==
  /\ UNCHANGED parOthers
  /\ p_pc = "waiting" /\ p_status[i] = "running" /\ p_mutLeft > 0
  /\ n \in 1..Len(p_lists[p_ctx[i].previous_results])
  /\ p_cells' = [p_cells EXCEPT ![p_lists[p_ctx[i].previous_results][n]] = Append(@, i)]
  /\ p_expect' = [p_expect EXCEPT ![i].previous_results[n] = Append(@, i)]
  /\ p_mutLeft' = p_mutLeft - 1
  /\ UNCHANGED <<parCtl, p_lists, p_dicts, p_callerCtx, p_callerView, p_ctx>>

parHeap == <<p_lists, p_dicts, p_cells, p_callerCtx, p_callerView, p_ctx, p_expect, p_mutLeft>>

\* the task of branch i finishes: _execute_agent returns
BranchComplete(i, kind) ==
  /\ UNCHANGED parOthers
  /\ p_pc = "waiting" /\ p_status[i] = "running"
  /\ p_status' = [p_status EXCEPT ![i] = "completed"]
  /\ p_taskResult' = [p_taskResult EXCEPT ![i] = ExecuteAgent(p_names[i], kind)]
  /\ p_order' = Append(p_order, i)
  /\ UNCHANGED <<p_names, p_failFast, p_pc, p_pending, p_results, p_aggCalled, p_aggInput,
                 p_ret, parHeap>>

\* a cancelled task whose worker swallows the cancellation and still produces a result
BranchLateFinish(i, kind) ==
  /\ UNCHANGED parOthers
  /\ p_pc = "returned" /\ p_status[i] = "cancelled" /\ p_taskResult[i] = NoResult
  /\ kind # "raise"
  /\ p_taskResult' = [p_taskResult EXCEPT ![i] = ExecuteAgent(p_names[i], kind)]
  /\ UNCHANGED <<p_names, p_failFast, p_pc, p_status, p_pending, p_results, p_order,
                 p_aggCalled, p_aggInput, p_ret, parHeap>>

\* the results in the order in which the tasks completed
GatherResults_AsCompleted(taskResult, order) ==
  [k \in 1..Len(order) |-> taskResult[order[k]]]

\* execute, lines 108-111: gather returns the results in the order of its arguments
GatherResults(taskResult, order) == taskResult

\* execute, lines 108-134 without fail_fast: gather has every result
GatherDone ==
  /\ UNCHANGED parOthers
  /\ p_pc = "waiting" /\ ~p_failFast
  /\ \A i \in 1..PN : p_status[i] = "completed"
  /\ LET agent_results == ProcessResults(p_names, GatherResults(p_taskResult, p_order))
     IN /\ p_aggInput' = agent_results
        /\ p_ret' = DefaultAggregator(agent_results)
  /\ p_aggCalled' = TRUE
  /\ p_pc' = "returned"
  /\ UNCHANGED <<p_names, p_failFast, p_status, p_taskResult, p_pending, p_results, p_order,
                 parHeap>>

\* on the timeout the results that are there already are aggregated
ParTimeout_Partial ==
  /\ UNCHANGED parOthers
  /\ p_pc = "waiting" /\ ~p_failFast
  /\ \E i \in 1..PN : p_status[i] = "running"
  /\ p_status' = CancelPending(p_status, {i \in 1..PN : p_status[i] = "running"})
  /\ LET partial == SelectSeq(p_taskResult, LAMBDA r : r # NoResult)
     IN /\ p_aggInput' = partial
        /\ p_ret' = [TimeoutResult EXCEPT
                       !.data = [n \in {partial[i].metadata.agent_name :
                                          i \in 1..Len(partial)} |-> EmptyDict]]
  /\ p_aggCalled' = TRUE
  /\ p_pc' = "returned"
  /\ UNCHANGED <<p_names, p_failFast, p_taskResult, p_pending, p_results, p_order, parHeap>>

\* execute, lines 112-117: wait_for gives up, gather and its tasks are cancelled
ParTimeout ==
  /\ UNCHANGED parOthers
  /\ p_pc = "waiting" /\ ~p_failFast
  /\ \E i \in 1..PN : p_status[i] = "running"
  /\ p_status' = CancelPending(p_status, {i \in 1..PN : p_status[i] = "running"})
  /\ p_ret' = TimeoutResult
  /\ p_pc' = "returned"
  /\ UNCHANGED <<p_names, p_failFast, p_taskResult, p_pending, p_results, p_order,
                 p_aggCalled, p_aggInput, parHeap>>

\* _execute_fail_fast, lines 167-195, one pass of the loop, then execute, lines 120-134:
\* asyncio.wait returns the pending tasks that are done; the set is iterated in `order`
FailFastWake(order) ==
  /\ UNCHANGED parOthers
  /\ p_pc = "waiting" /\ p_failFast
  /\ LET done == {i \in p_pending : p_status[i] = "completed"}
         loop == FailFastLoop(p_results, order, 1, p_taskResult, p_names)
         agent_results == ProcessResults(p_names, loop.results)
     IN /\ done # {}
        /\ order \in InjectiveSeqs(done, Cardinality(done))
        /\ p_results' = loop.results
        /\ p_pending' = p_pending \ done
        /\ IF loop.returned
           THEN /\ p_status' = CancelPending(p_status, p_pending \ done)
                /\ p_aggInput' = agent_results
                /\ p_ret' = DefaultAggregator(agent_results)
                /\ p_aggCalled' = TRUE
                /\ p_pc' = "returned"
           ELSE IF p_pending \ done = {}
           THEN /\ p_aggInput' = agent_results
                /\ p_ret' = DefaultAggregator(agent_results)
                /\ p_aggCalled' = TRUE
                /\ p_pc' = "returned"
                /\ UNCHANGED p_status
           ELSE UNCHANGED <<p_status, p_aggInput, p_ret, p_aggCalled, p_pc>>
  /\ UNCHANGED <<p_names, p_failFast, p_taskResult, p_order, parHeap>>

\* _execute_fail_fast, lines 167-172: the timeout of asyncio.wait elapses with no task
\* done; wait raises nothing, `done` is empty and the loop waits again
FailFastTimeout ==
  /\ UNCHANGED parOthers
  /\ p_pc = "waiting" /\ p_failFast
  /\ {i \in p_pending : p_status[i] = "completed"} = {}
  /\ UNCHANGED parVars

ParNext ==
  \/ ParStartEmpty
  \/ ParStart
  \/ \E i \in 1..PN, kind \in OutcomeKinds : BranchComplete(i, kind)
  \/ \E i \in 1..PN, kind \in OutcomeKinds : BranchLateFinish(i, kind)
  \/ GatherDone
  \/ ParTimeout
  \/ FailFastTimeout
  \/ \E order \in UNION {InjectiveSeqs(S, Cardinality(S)) : S \in SUBSET (1..PN)} :
       FailFastWake(order)

\* one execute() whose workers change the contexts they were given
ParCtxNext ==
  \/ ParStartEmpty
  \/ ParStart
  \/ \E i \in 1..PN : BranchAppendPrevious(i)
  \/ \E i \in 1..PN, key \in StateKeys : BranchSetKey(i, key)
  \/ \E i \in 1..PN, key \in StateKeys : BranchDelKey(i, key)
  \/ \E i \in 1..PN, key \in StateKeys : BranchMutateNested(i, key)
  \/ \E i \in 1..PN, n \in 1..2 : BranchMutateResult(i, n)
  \/ \E i \in 1..PN : BranchComplete(i, "ok")
  \/ GatherDone

(***************************************************************************)
(* SequentialAgents (src/agent/factory/patterns/sequential.py).            *)
(***************************************************************************)
StageOrders == {<<"research", "plan", "code", "review">>, <<"code", "code", "plan", "test">>}
DataChoices == {EmptyDict, [next_task |-> "retask"], [k1 |-> "v"]}

\* a context held by value
ContextValue(task, previous_results, shared_state, iteration) ==
  [task |-> task, previous_results |-> previous_results, shared_state |-> shared_state,
   current_iteration |-> iteration]

PriorResult == AgentResult(TRUE, "earlier output", EmptyDict, <<>>, None, NoMeta)

CallerContexts ==
  {ContextValue("task", <<>>, EmptyDict, 0),
   ContextValue("task", <<PriorResult>>, [k1 |-> "init", k0 |-> "init"], 3)}

\* dict.update(): the keys of `new` win
DictUpdate(old, new) == new @@ old

SeqIdleCall(ctx) ==
  [pc |-> "idle", idx |-> 0, all_results |-> <<>>, callerCtx |-> ctx, ctx |-> ctx,
   ret |-> NoResult, ran |-> <<>>]

\* a context object with its two containers, allocated for the context value c
Allocate(c) ==
  [pc |-> "idle", idx |-> 0, cur |-> 1,
   ctxs |-> <<[task |-> c.task, previous_results |-> 1, shared_state |-> 1,
               current_iteration |-> c.current_iteration]>>,
   lists |-> <<c.previous_results>>, dicts |-> <<c.shared_state>>,
   expect |-> c, writes |-> 0]

SeqConstructed(calls) ==
  /\ \E k \in 0..MaxStages, o \in StageOrders : s_stages = SubSeq(o, 1, k)
  /\ s_stop \in BOOLEAN
  /\ s_execLog = <<>>
  /\ s_heap = Allocate(ContextValue("task", <<>>, EmptyDict, 0))
  /\ s_call \in [1..calls -> {SeqIdleCall(c) : c \in CallerContexts}]

SeqInit == SeqConstructed(1)

EmptyPipelineResult ==
  AgentResult(FALSE, "Empty pipeline", EmptyDict,
              <<"SequentialAgents has no stages configured">>, None, NoMeta)

\* execute, lines 92-97
SeqStartEmpty(c) ==
  /\ UNCHANGED seqOthers
  /\ s_call[c].pc = "idle" /\ Len(s_stages) = 0
  /\ s_call' = [s_call EXCEPT ![c].pc = "returned", ![c].ret = EmptyPipelineResult]
  /\ UNCHANGED <<s_stages, s_stop, s_execLog, s_heap>>

\* execute, lines 99-101
SeqStart(c) ==
  /\ UNCHANGED seqOthers
  /\ s_call[c].pc = "idle" /\ Len(s_stages) > 0
  /\ s_execLog' = <<>>
  /\ s_call' = [s_call EXCEPT ![c].pc = "running", ![c].idx = 1, ![c].all_results = <<>>,
                              ![c].ctx = s_call[c].callerCtx]
  /\ UNCHANGED <<s_stages, s_stop, s_heap>>

\* the result made from an exception is left without its stage tags
StageResult_Untagged(stage_name, stage_idx, kind, data) ==
  IF kind = "raise"
  THEN AgentResult(FALSE, "Stage " \o stage_name \o " raised exception",
                   EmptyDict, <<ExcMessage(stage_name)>>, None, NoMeta)
  ELSE SetMeta(SetMeta(WorkerResult(stage_name, kind, None, data),
                       "stage_name", stage_name), "stage_index", stage_idx)

\* execute, lines 105-116: the worker's result, or its exception as a failed result, tagged
StageResult(stage_name, stage_idx, kind, data) ==
  LET raw == IF kind = "raise"
             THEN AgentResult(FALSE, "Stage " \o stage_name \o " raised exception",
                              EmptyDict, <<ExcMessage(stage_name)>>, None, NoMeta)
             ELSE WorkerResult(stage_name, kind, None, data)
  IN SetMeta(SetMeta(raw, "stage_name", stage_name), "stage_index", stage_idx)

\* execute, lines 119-124
LogEntry(stage_name, stage_idx, result) ==
  [stage |-> stage_name, index |-> stage_idx, success |-> result.success,
   output_preview |-> result.output]

\* execute, lines 130-136
PipelineFailure(stage_name, stage_idx, total, result, all_results, log) ==
  AgentResult(FALSE, "Pipeline failed at stage: " \o stage_name,
              [failed_stage |-> stage_name, stage_results |-> all_results],
              Append(result.errors,
                     "Pipeline stopped at stage " \o ToString(stage_idx + 1) \o "/"
                       \o ToString(total)),
              None, [execution_log |-> log])

\* a transform that starts the next stage from an empty previous_results
DefaultTransform_Fresh(context, result) ==
  ContextValue(IF "next_task" \in DOMAIN result.data THEN result.data["next_task"]
               ELSE context.task,
               <<>>,
               DictUpdate(context.shared_state, result.data),
               context.current_iteration + 1)

\* a transform in which the keys already in shared_state win over the stage's data
DefaultTransform_OldWins(context, result) ==
  ContextValue(IF "next_task" \in DOMAIN result.data THEN result.data["next_task"]
               ELSE context.task,
               context.previous_results,
               DictUpdate(result.data, context.shared_state),
               context.current_iteration + 1)

\* _default_transform
DefaultTransform(context, result) ==
  ContextValue(IF "next_task" \in DOMAIN result.data THEN result.data["next_task"]
               ELSE context.task,
               context.previous_results,
               DictUpdate(context.shared_state, result.data),
               context.current_iteration + 1)

\* execute, lines 139-141
NextContext(context, result) ==
  LET transformed == DefaultTransform(context, result)
  IN [transformed EXCEPT !.previous_results = Append(@, result)]

\* the value of the last entry of `results` tagged with stage_name `n`
LastDataOf(results, n) ==
  LET last == CHOOSE i \in 1..Len(results) :
                /\ results[i].metadata.stage_name = n
                /\ \A j \in 1..Len(results) : results[j].metadata.stage_name = n => j <= i
  IN results[last].data

\* a compilation that reports the errors of the last stage only
SeqCompileFinalResult_LastErrors(results, total, log) ==
  AgentResult(\A i \in 1..Len(results) : results[i].success,
              results[Len(results)].output,
              [final_output |-> results[Len(results)].data,
               all_stages |-> [n \in {results[i].metadata.stage_name : i \in 1..Len(results)}
                                 |-> LastDataOf(results, n)]],
              results[Len(results)].errors,
              None,
              [stages_completed |-> Len(results), total_stages |-> total,
               execution_log |-> log,
               stage_outputs |-> [i \in 1..Len(results) |->
                                    "### Stage: " \o results[i].metadata.stage_name \o "\n"
                                      \o results[i].output]])

\* _compile_final_result
SeqCompileFinalResult(results, total, log) ==
  AgentResult(\A i \in 1..Len(results) : results[i].success,
              results[Len(results)].output,
              [final_output |-> results[Len(results)].data,
               all_stages |-> [n \in {results[i].metadata.stage_name : i \in 1..Len(results)}
                                 |-> LastDataOf(results, n)]],
              Concat([i \in 1..Len(results) |-> results[i].errors]),
              None,
              [stages_completed |-> Len(results), total_stages |-> total,
               execution_log |-> log,
               stage_outputs |-> [i \in 1..Len(results) |->
                                    "### Stage: " \o results[i].metadata.stage_name \o "\n"
                                      \o results[i].output]])

\* the flag read the wrong way round
StopsAt_Inverted(result, stop_on_failure) == ~result.success /\ ~stop_on_failure

\* execute, line 129: the pipeline stops after a stage that gave `result`
StopsAt(result, stop_on_failure) == ~result.success /\ stop_on_failure

\* execute, lines 103-144: one pass of the loop, the stage at position idx
SeqStage(c, kind, data) ==
  /\ UNCHANGED seqOthers
  /\ s_call[c].pc = "running"
  /\ LET idx == s_call[c].idx
         stage_name == s_stages[idx]
         result == StageResult(stage_name, idx - 1, kind, data)
         log == Append(s_execLog, LogEntry(stage_name, idx - 1, result))
         all_results == Append(s_call[c].all_results, result)
         ran == Append(s_call[c].ran, idx)
     IN /\ s_execLog' = log
        /\ IF StopsAt(result, s_stop)
           THEN s_call' = [s_call EXCEPT
                  ![c].pc = "returned", ![c].all_results = all_results, ![c].ran = ran,
                  ![c].ret = PipelineFailure(stage_name, idx - 1, Len(s_stages), result,
                                             all_results, log)]
           ELSE IF idx < Len(s_stages)
           THEN s_call' = [s_call EXCEPT
                  ![c].idx = idx + 1, ![c].all_results = all_results, ![c].ran = ran,
                  ![c].ctx = NextContext(s_call[c].ctx, result)]
           ELSE s_call' = [s_call EXCEPT
                  ![c].pc = "returned", ![c].all_results = all_results, ![c].ran = ran,
                  ![c].ret = SeqCompileFinalResult(all_results, Len(s_stages), log)]
  /\ UNCHANGED <<s_stages, s_stop, s_heap>>

\* playbook_agents.py, create_development_pipeline and default_pipeline: the module-level
\* pipeline (stop_on_failure=True) that run_feature_pipeline calls; two calls
DefaultPipeline ==
  /\ s_stages = SubSeq(<<"research", "plan", "code", "review", "test">>, 1, MaxStages)
  /\ s_stop = TRUE
  /\ s_execLog = <<>>
  /\ s_heap = Allocate(ContextValue("task", <<>>, EmptyDict, 0))
  /\ s_call = [c \in 1..2 |-> SeqIdleCall(ContextValue("task", <<>>, EmptyDict, 0))]

\* the concurrent calls, interleaved where a call is suspended in its stage's worker
SeqSharedNext ==
  \/ \E c \in DOMAIN s_call : SeqStart(c)
  \/ \E c \in DOMAIN s_call, kind \in OutcomeKinds : SeqStage(c, kind, EmptyDict)

\* the value of the context object i: its fields, its containers read through
Deref(heap, i) ==
  ContextValue(heap.ctxs[i].task, heap.lists[heap.ctxs[i].previous_results],
               heap.dicts[heap.ctxs[i].shared_state], heap.ctxs[i].current_iteration)

\* what a worker may append to the previous_results of the context it was given
WorkerNote == AgentResult(TRUE, "appended by the worker", EmptyDict, <<>>, None, NoMeta)

\* the caller's context object as the first stage's worker leaves it: the only writes to
\* it that are the worker's own
ExpectAfter(heap, next) ==
  IF heap.cur = 1 THEN Deref(next, 1) ELSE heap.expect

\* a call on a caller's context object; a pipeline of at least one stage
SeqRefInit ==
  /\ \E k \in 1..MaxStages : s_stages = SubSeq(<<"research", "plan", "code", "review">>, 1, k)
  /\ s_stop \in BOOLEAN
  /\ s_execLog = <<>>
  /\ s_call = [c \in 1..1 |-> SeqIdleCall(ContextValue("task", <<>>, EmptyDict, 0))]
  /\ \E c \in CallerContexts : s_heap = [Allocate(c) EXCEPT !.writes = MaxMutations]

\* execute, lines 99-101: current_context is the caller's object
SeqRefStart ==
  /\ UNCHANGED seqOthers
  /\ s_heap.pc = "idle"
  /\ s_heap' = [s_heap EXCEPT !.pc = "running", !.idx = 1, !.cur = 1]
  /\ UNCHANGED <<s_stages, s_stop, s_execLog, s_call>>

\* the running stage's worker appends to context.previous_results
WorkerAppendPrevious ==
  /\ UNCHANGED seqOthers
  /\ s_heap.pc = "running" /\ s_heap.writes > 0
  /\ LET ref == s_heap.ctxs[s_heap.cur].previous_results
         next == [s_heap EXCEPT !.lists[ref] = Append(@, WorkerNote), !.writes = @ - 1]
     IN s_heap' = [next EXCEPT !.expect = ExpectAfter(s_heap, next)]
  /\ UNCHANGED <<s_stages, s_stop, s_execLog, s_call>>

\* the running stage's worker sets a top-level key of context.shared_state
WorkerSetKey(key) ==
  /\ UNCHANGED seqOthers
  /\ s_heap.pc = "running" /\ s_heap.writes > 0
  /\ LET ref == s_heap.ctxs[s_heap.cur].shared_state
         next == [s_heap EXCEPT !.dicts[ref] = (key :> "set by the worker") @@ @,
                                !.writes = @ - 1]
     IN s_heap' = [next EXCEPT !.expect = ExpectAfter(s_heap, next)]
  /\ UNCHANGED <<s_stages, s_stop, s_execLog, s_call>>

\* the running stage's worker assigns context.task
WorkerSetTask ==
  /\ UNCHANGED seqOthers
  /\ s_heap.pc = "running" /\ s_heap.writes > 0
  /\ LET next == [s_heap EXCEPT !.ctxs[s_heap.cur].task = "task of the worker",
                                !.writes = @ - 1]
     IN s_heap' = [next EXCEPT !.expect = ExpectAfter(s_heap, next)]
  /\ UNCHANGED <<s_stages, s_stop, s_execLog, s_call>>

\* a transform that updates the context it was given and returns it
RefTransform_InPlace(heap, result) ==
  LET next == NextContext(Deref(heap, heap.cur), result)
      ctx == heap.ctxs[heap.cur]
  IN [heap EXCEPT !.lists[ctx.previous_results] = next.previous_results,
                  !.dicts[ctx.shared_state] = next.shared_state,
                  !.ctxs[heap.cur].task = next.task,
                  !.ctxs[heap.cur].current_iteration = next.current_iteration]

\* execute, lines 139-141 with _default_transform: a new AgentContext on a copy of
\* previous_results and a copy of shared_state; the result is appended to the new list
RefTransform(heap, result) ==
  LET next == NextContext(Deref(heap, heap.cur), result)
  IN [heap EXCEPT !.lists = Append(@, next.previous_results),
                  !.dicts = Append(@, next.shared_state),
                  !.ctxs = Append(@, [task |-> next.task,
                                      previous_results |-> Len(heap.lists) + 1,
                                      shared_state |-> Len(heap.dicts) + 1,
                                      current_iteration |-> next.current_iteration]),
                  !.cur = Len(heap.ctxs) + 1]

\* execute, lines 103-144: the stage at position idx completes
SeqRefStage(kind, data) ==
  /\ UNCHANGED seqOthers
  /\ s_heap.pc = "running"
  /\ LET idx == s_heap.idx
         result == StageResult(s_stages[idx], idx - 1, kind, data)
     IN IF StopsAt(result, s_stop) \/ idx = Len(s_stages)
        THEN s_heap' = [s_heap EXCEPT !.pc = "returned"]
        ELSE s_heap' = [RefTransform(s_heap, result) EXCEPT !.idx = idx + 1]
  /\ UNCHANGED <<s_stages, s_stop, s_execLog, s_call>>

SeqRefNext ==
  \/ SeqRefStart
  \/ WorkerAppendPrevious
  \/ \E key \in {"k1", "k2"} : WorkerSetKey(key)
  \/ WorkerSetTask
  \/ \E kind \in OutcomeKinds, data \in DataChoices : SeqRefStage(kind, data)

SeqNext ==
  \/ \E c \in DOMAIN s_call : SeqStartEmpty(c)
  \/ \E c \in DOMAIN s_call : SeqStart(c)
  \/ \E c \in DOMAIN s_call, kind \in OutcomeKinds, data \in DataChoices :
       SeqStage(c, kind, data)

(***************************************************************************)
(* AgentHandoff (src/agent/factory/patterns/handoff.py).                   *)
(***************************************************************************)
HandoffNames == {"planner", "coder", "ghost"}
HandoffRegistries == {{"planner", "coder"}, {"planner"}}

HoIdleCall(ctx) ==
  [pc |-> "idle", max_handoffs |-> 0, current_agent |-> None, handoff_count |-> 0,
   callerCtx |-> ctx, ctx |-> ctx, ret |-> NoResult, executed |-> <<>>]

HoConstructed ==
  /\ h_registry \in HandoffRegistries
  /\ h_history = <<>>
  /\ h_call \in {HoIdleCall(c) : c \in CallerContexts}

HoInit == HoConstructed

\* execute_with_handoff, lines 62-63
HoCall(initial_agent, max_handoffs) ==
  /\ UNCHANGED hoOthers
  /\ h_call.pc = "idle"
  /\ h_call' = [h_call EXCEPT !.pc = "loop", !.max_handoffs = max_handoffs,
                              !.current_agent = initial_agent, !.handoff_count = 0]
  /\ UNCHANGED <<h_registry, h_history>>

\* a loop condition that lets two passes too many through
HandoffContinue_Loose(handoff_count, max_handoffs) == handoff_count < max_handoffs + 2

\* execute_with_handoff, line 65: the loop condition
HandoffContinue(handoff_count, max_handoffs) == handoff_count < max_handoffs

\* execute_with_handoff, lines 70-74
HistoryEntry(agent, result) ==
  [agent |-> agent, success |-> result.success, handoff_to |-> result.next_agent]

\* execute_with_handoff, line 84
HandoffFailed(result) ==
  [result EXCEPT !.errors =
     Append(@, "Handoff failed: agent '" \o result.next_agent \o "' not found")]

\* a handoff that leaves current_iteration as it is
HandoffContext_NoTick(context, result) ==
  [context EXCEPT !.previous_results = Append(@, result)]

\* execute_with_handoff, lines 87-89: the caller's context, updated in place
HandoffContext(context, result) ==
  [context EXCEPT !.previous_results = Append(@, result), !.current_iteration = @ + 1]

\* execute_with_handoff, lines 96-100
MaxHandoffsResult(max_handoffs) ==
  AgentResult(FALSE, "Maximum handoffs reached", EmptyDict,
              <<"Exceeded max handoffs (" \o ToString(max_handoffs) \o ")">>, None, NoMeta)

\* execute_with_handoff, lines 65-93: one pass of the loop; an exception of the worker is
\* not caught anywhere in the method and leaves it
HoStep(kind, next) ==
  /\ UNCHANGED hoOthers
  /\ h_call.pc = "loop"
  /\ HandoffContinue(h_call.handoff_count, h_call.max_handoffs)
  /\ LET agent == h_call.current_agent
         result == WorkerResult(agent, kind, next, EmptyDict)
         executed == Append(h_call.executed, agent)
     IN IF kind = "raise"
        THEN /\ next = None
             /\ h_call' = [h_call EXCEPT !.pc = "raised", !.executed = executed]
             /\ UNCHANGED h_history
        ELSE /\ h_history' = Append(h_history, HistoryEntry(agent, result))
             /\ IF result.next_agent = None
                THEN h_call' = [h_call EXCEPT !.pc = "returned", !.ret = result,
                                              !.executed = executed]
                ELSE IF result.next_agent \notin h_registry
                THEN h_call' = [h_call EXCEPT !.pc = "returned",
                                              !.ret = HandoffFailed(result),
                                              !.executed = executed]
                ELSE h_call' = [h_call EXCEPT
                       !.ctx = HandoffContext(@, result),
                       !.current_agent = result.next_agent,
                       !.handoff_count = @ + 1,
                       !.executed = executed]
  /\ UNCHANGED h_registry

\* execute_with_handoff, lines 95-100: the loop condition fails
HoExhausted ==
  /\ UNCHANGED hoOthers
  /\ h_call.pc = "loop"
  /\ ~HandoffContinue(h_call.handoff_count, h_call.max_handoffs)
  /\ h_call' = [h_call EXCEPT !.pc = "returned",
                              !.ret = MaxHandoffsResult(h_call.max_handoffs)]
  /\ UNCHANGED <<h_registry, h_history>>

\* get_handoff_chain
HandoffChain == [i \in 1..Len(h_history) |-> h_history[i].agent]

\* clear_history, called between two calls
HoClearHistory ==
  /\ UNCHANGED hoOthers
  /\ h_call.pc # "loop"
  /\ h_history' = <<>>
  /\ UNCHANGED <<h_registry, h_call>>

\* execute_with_handoff, lines 62-63, on an instance that has served a call before: the
\* caller passes a context of its own, the instance keeps what it holds
HoCallAgain(context, initial_agent, max_handoffs) ==
  /\ UNCHANGED hoOthers
  /\ h_call.pc \in {"returned", "raised"}
  /\ Len(h_history) <= MaxKept
  /\ h_call' = [HoIdleCall(context) EXCEPT !.pc = "loop", !.max_handoffs = max_handoffs,
                                           !.current_agent = initial_agent]
  /\ UNCHANGED <<h_registry, h_history>>

\* one AgentHandoff instance serving one call after the other
HoReuseNext ==
  \/ \E a \in HandoffNames, m \in 0..MaxHandoffs : HoCall(a, m)
  \/ \E kind \in OutcomeKinds, next \in HandoffNames \cup {None} : HoStep(kind, next)
  \/ HoExhausted
  \/ HoClearHistory
  \/ \E a \in HandoffNames, m \in 0..MaxHandoffs :
       HoCallAgain(ContextValue("task", <<>>, EmptyDict, 0), a, m)

HoNext ==
  \/ \E a \in HandoffNames, m \in 0..MaxHandoffs : HoCall(a, m)
  \/ \E kind \in OutcomeKinds, next \in HandoffNames \cup {None} : HoStep(kind, next)
  \/ HoExhausted

(***************************************************************************)
(* SupervisorPattern (src/agent/factory/patterns/supervisor.py).           *)
(***************************************************************************)
WorkerOrders == {<<"researcher", "planner", "coder", "reviewer", "tester">>,
                 <<"helper", "coder", "planner", "researcher", "tester">>,
                 <<"tester", "researcher", "planner", "coder", "reviewer">>}
Workflow == <<"researcher", "planner", "coder", "reviewer", "tester">>
SupNextChoices == {None, "coder", "ghost"}

\* add_worker(name, agent): the name the agent was constructed with, which is what it
\* writes in metadata["agent_name"]; "tester" is registered with TesterAgent("qa")
SelfName(name) == IF name = "tester" THEN "qa" ELSE name

\* what the worker registered as `name` answers: execute never relabels a result
SupWorkerResult(name, kind, next) ==
  SetMeta(WorkerResult(name, kind, next, EmptyDict), "agent_name", SelfName(name))

SupIdleCall(ctx) ==
  [pc |-> "idle", iteration |-> 0, ctx |-> ctx, ret |-> NoResult, invoked |-> <<>>,
   max_at_start |-> 0]

SupConstructed(calls) ==
  /\ \E n \in 0..MaxWorkers, o \in WorkerOrders : u_workers = SubSeq(o, 1, n)
  /\ u_maxIter \in 0..MaxIterations
  /\ u_default \in BOOLEAN
  /\ u_execLog = <<>>
  /\ u_call \in [1..calls -> {SupIdleCall(c) : c \in CallerContexts}]

SupInit == SupConstructed(1)

Range(s) == {s[i] : i \in 1..Len(s)}

\* a policy that walks the canonical order and never looks at next_agent
DefaultDecision_PolicyOnly(previous_results, workers) ==
  IF Len(previous_results) = 0
  THEN IF "researcher" \in Range(workers) THEN "researcher"
       ELSE IF "planner" \in Range(workers) THEN "planner"
       ELSE IF Len(workers) > 0 THEN workers[1] ELSE None
  ELSE LET agents_used == {previous_results[i].metadata.agent_name :
                             i \in 1..Len(previous_results)} \ {None}
           free == {k \in 1..Len(Workflow) :
                      Workflow[k] \in Range(workers) /\ Workflow[k] \notin agents_used}
       IN IF free # {}
          THEN Workflow[CHOOSE k \in free : \A j \in free : k <= j]
          ELSE None

\* _default_decision
DefaultDecision(previous_results, workers) ==
  IF Len(previous_results) = 0
  THEN IF "researcher" \in Range(workers) THEN "researcher"
       ELSE IF "planner" \in Range(workers) THEN "planner"
       ELSE IF Len(workers) > 0 THEN workers[1] ELSE None
  ELSE LET last_result == previous_results[Len(previous_results)]
           agents_used == {previous_results[i].metadata.agent_name :
                             i \in 1..Len(previous_results)} \ {None}
           free == {k \in 1..Len(Workflow) :
                      Workflow[k] \in Range(workers) /\ Workflow[k] \notin agents_used}
       IN IF last_result.next_agent # None THEN last_result.next_agent
          ELSE IF free # {}
          THEN Workflow[CHOOSE k \in free : \A j \in free : k <= j]
          ELSE None

\* a retry budget of two passes instead of one
ShouldRetry_Twice(result, iteration) == iteration < 2

\* _should_retry
ShouldRetry(result, iteration) == iteration < 1

\* a loop condition that lets one pass too many through
SupervisorContinue_Inclusive(iteration, max_iterations) == iteration <= max_iterations

\* execute, line 84: the loop condition
SupervisorContinue(iteration, max_iterations) == iteration < max_iterations

RECURSIVE DictUpdateAll(_)
DictUpdateAll(dicts) ==
  IF Len(dicts) = 0 THEN EmptyDict
  ELSE DictUpdate(DictUpdateAll(SubSeq(dicts, 1, Len(dicts) - 1)), dicts[Len(dicts)])

\* a compilation that reports the success of the last result only
SupCompileFinalResult_LastWins(previous_results, log) ==
  IF Len(previous_results) = 0
  THEN AgentResult(FALSE, "No agents executed", EmptyDict,
                   <<"Supervisor completed without any agent execution">>, None, NoMeta)
  ELSE LET HasOutput(r) == r.output # ""
           kept == SelectIdx(previous_results, HasOutput, 1)
       IN AgentResult(previous_results[Len(previous_results)].success,
                      Join([i \in 1..Len(kept) |-> kept[i].output], "\n\n---\n\n"),
                      DictUpdateAll([i \in 1..Len(previous_results) |->
                                       previous_results[i].data]),
                      Concat([i \in 1..Len(previous_results) |-> previous_results[i].errors]),
                      None,
                      [agents_used |-> Len(previous_results), execution_log |-> log])

\* _compile_final_result
SupCompileFinalResult(previous_results, log) ==
  IF Len(previous_results) = 0
  THEN AgentResult(FALSE, "No agents executed", EmptyDict,
                   <<"Supervisor completed without any agent execution">>, None, NoMeta)
  ELSE LET HasOutput(r) == r.output # ""
           kept == SelectIdx(previous_results, HasOutput, 1)
       IN AgentResult(\A i \in 1..Len(previous_results) : previous_results[i].success,
                      Join([i \in 1..Len(kept) |-> kept[i].output], "\n\n---\n\n"),
                      DictUpdateAll([i \in 1..Len(previous_results) |->
                                       previous_results[i].data]),
                      Concat([i \in 1..Len(previous_results) |-> previous_results[i].errors]),
                      None,
                      [agents_used |-> Len(previous_results), execution_log |-> log])

WorkerNotFound(name) ==
  AgentResult(FALSE, "Supervisor error", EmptyDict,
              <<"Worker '" \o name \o "' not found">>, None, NoMeta)

MaxIterationsResult(max_iterations) ==
  AgentResult(FALSE, "Supervisor max iterations reached", EmptyDict,
              <<"Exceeded " \o ToString(max_iterations) \o " iterations">>, None, NoMeta)

\* execute, lines 81-82
SupStart(c) ==
  /\ UNCHANGED supOthers
  /\ u_call[c].pc = "idle"
  /\ u_execLog' = <<>>
  /\ u_call' = [u_call EXCEPT ![c].pc = "loop", ![c].iteration = 0,
                              ![c].max_at_start = u_maxIter]
  /\ UNCHANGED <<u_workers, u_maxIter, u_default>>

\* execute, lines 84-125: one pass of the loop.  `choice` is what a custom decision
\* function answers; an exception of the worker is not caught anywhere in the method
SupStep(c, choice, kind, next) ==
  /\ UNCHANGED supOthers
  /\ u_call[c].pc = "loop"
  /\ SupervisorContinue(u_call[c].iteration, u_maxIter)
  /\ IF u_default THEN choice = None ELSE next = None
  /\ kind = "raise" => next = None
  /\ LET iteration == u_call[c].iteration
         previous_results == u_call[c].ctx.previous_results
         next_agent_name == IF u_default THEN DefaultDecision(previous_results, u_workers)
                            ELSE choice
         result == SupWorkerResult(next_agent_name, kind, next)
         invoked == Append(u_call[c].invoked, next_agent_name)
         ctx == [u_call[c].ctx EXCEPT !.previous_results = Append(@, result),
                                      !.current_iteration = iteration + 1]
     IN IF next_agent_name = None
        THEN /\ kind = "ok"
             /\ u_call' = [u_call EXCEPT ![c].pc = "returned",
                             ![c].ret = SupCompileFinalResult(previous_results, u_execLog)]
             /\ UNCHANGED u_execLog
        ELSE IF next_agent_name \notin Range(u_workers)
        THEN /\ kind = "ok"
             /\ u_call' = [u_call EXCEPT ![c].pc = "returned",
                                         ![c].ret = WorkerNotFound(next_agent_name)]
             /\ UNCHANGED u_execLog
        ELSE IF kind = "raise"
        THEN /\ u_call' = [u_call EXCEPT ![c].pc = "raised", ![c].invoked = invoked]
             /\ UNCHANGED u_execLog
        ELSE /\ u_execLog' = Append(u_execLog,
                                    [iteration |-> iteration, agent |-> next_agent_name,
                                     success |-> result.success,
                                     output_preview |-> result.output])
             /\ IF ~result.success /\ ~ShouldRetry(result, iteration)
                THEN u_call' = [u_call EXCEPT ![c].pc = "returned", ![c].ret = result,
                                              ![c].ctx = ctx, ![c].invoked = invoked]
                ELSE u_call' = [u_call EXCEPT ![c].iteration = iteration + 1,
                                              ![c].ctx = ctx, ![c].invoked = invoked]
  /\ UNCHANGED <<u_workers, u_maxIter, u_default>>

\* execute, lines 127-132: the loop condition fails
SupExhausted(c) ==
  /\ UNCHANGED supOthers
  /\ u_call[c].pc = "loop"
  /\ ~SupervisorContinue(u_call[c].iteration, u_maxIter)
  /\ u_call' = [u_call EXCEPT ![c].pc = "returned",
                              ![c].ret = MaxIterationsResult(u_maxIter)]
  /\ UNCHANGED <<u_workers, u_maxIter, u_default, u_execLog>>

\* playbook_agents.py, create_feature_supervisor and default_supervisor: the module-level
\* instance the tools share, with the default decision function; two tool calls
DefaultSupervisor ==
  /\ u_workers = SubSeq(Workflow, 1, MaxWorkers)
  /\ u_maxIter = MaxIterations
  /\ u_default = TRUE
  /\ u_execLog = <<>>
  /\ u_call = [c \in 1..2 |-> SupIdleCall(ContextValue("task", <<>>, EmptyDict, 0))]

\* a call that has entered execute and not yet reached its first worker: there is no
\* await between line 986 of supervised_task and the first agent.execute
Starting(c) ==
  u_call[c].pc = "loop" /\ u_call[c].iteration = 0 /\ u_call[c].invoked = <<>>

\* the event loop runs call c: no other call is in a stretch without a suspension point
Scheduled(c) == \A d \in DOMAIN u_call \ {c} : ~Starting(d)

\* playbook_mcp.py, supervised_task, lines 986-989 with execute, lines 81-82
SupervisedTask(c, max_iterations) ==
  /\ UNCHANGED supOthers
  /\ u_call[c].pc = "idle"
  /\ Scheduled(c)
  /\ u_maxIter' = max_iterations
  /\ u_execLog' = <<>>
  /\ u_call' = [u_call EXCEPT ![c].pc = "loop", ![c].iteration = 0,
                              ![c].max_at_start = max_iterations]
  /\ UNCHANGED <<u_workers, u_default>>

\* the passes of the concurrent runs, interleaved where a run is suspended in its worker
SupTaskStep(c, kind, next) == Scheduled(c) /\ SupStep(c, None, kind, next)

SupTaskExhausted(c) == Scheduled(c) /\ SupExhausted(c)

SupTaskNext ==
  \/ \E c \in DOMAIN u_call, max_iterations \in 0..MaxIterations :
        SupervisedTask(c, max_iterations)
  \/ \E c \in DOMAIN u_call, kind \in OutcomeKinds, next \in SupNextChoices :
        SupTaskStep(c, kind, next)
  \/ \E c \in DOMAIN u_call : SupTaskExhausted(c)

SupNext ==
  \/ \E c \in DOMAIN u_call : SupStart(c)
  \/ \E c \in DOMAIN u_call, choice \in Range(u_workers) \cup {None, "ghost"},
        kind \in OutcomeKinds, next \in SupNextChoices : SupStep(c, choice, kind, next)
  \/ \E c \in DOMAIN u_call : SupExhausted(c)

(***************************************************************************)
(* AgentAsTool (src/agent/factory/patterns/agent_as_tool.py).              *)
(***************************************************************************)
ToolTasks == {"task", "find docs"}
ToolOutputs == {"", "tool output"}
ErrorLists == {<<>>, <<"e1">>, <<"e1", "e2">>}

ToolInit ==
  /\ t_callCount = 0
  /\ t_ctx = ContextValue("task", <<>>, EmptyDict, 0)
  /\ t_last = [kind |-> None, result |-> NoResult, task |-> None, seen_task |-> None,
               ret |-> None]
  /\ t_pc = "idle"

\* __call__, lines 70-73: the string for a result the worker returned
ToolString(result) ==
  IF result.success THEN result.output
  ELSE "Agent failed: " \o Join(result.errors, "; ")

\* __call__, lines 75-76: the string for an exception the worker raised
ToolErrorString(message) == "Agent error: " \o message

\* the exception of the worker leaves the call
CallOutcome_Uncaught(kind, result, message) ==
  IF kind = "raise" THEN [pc |-> "raised", ret |-> None]
  ELSE [pc |-> "returned", ret |-> ToolString(result)]

\* __call__, lines 67-76: the try block and its handler
CallOutcome(kind, result, message) ==
  IF kind = "raise" THEN [pc |-> "returned", ret |-> ToolErrorString(message)]
  ELSE [pc |-> "returned", ret |-> ToolString(result)]

\* __call__: the whole call; with_context says whether the caller passed a context
ToolCall(task, with_context, kind, output, errors) ==
  /\ UNCHANGED toolOthers
  /\ t_callCount < MaxToolCalls /\ t_pc # "raised"
  /\ kind = "raise" => (output = "" /\ errors = <<>>)
  /\ t_callCount' = t_callCount + 1
  /\ LET context == IF with_context THEN [t_ctx EXCEPT !.task = task]
                    ELSE ContextValue(task, <<>>, EmptyDict, 0)
         result == AgentResult(kind = "ok", output, EmptyDict, errors, None, NoMeta)
         outcome == CallOutcome(kind, result, ExcMessage("tool"))
     IN /\ t_ctx' = IF with_context THEN context ELSE t_ctx
        /\ t_last' = [kind |-> kind, result |-> result, task |-> task,
                      seen_task |-> context.task, ret |-> outcome.ret]
        /\ t_pc' = outcome.pc

ToolNext ==
  \E task \in ToolTasks, with_context \in BOOLEAN, kind \in OutcomeKinds,
     output \in ToolOutputs, errors \in ErrorLists :
       ToolCall(task, with_context, kind, output, errors)

(***************************************************************************)
(* LLMRouter / CostOptimizedRouter (src/agent/factory/patterns/router.py). *)
(* The texts that are searched (tasks, keywords) are sequences of          *)
(* characters; a confidence c is held as the integer c * ConfidenceScale.  *)
(***************************************************************************)
ConfidenceScale == 60
NoThreshold == -1
HistoryTaskLen == 100
UpperCase == <<"A", "B", "C", "D", "E", "F", "G", "H", "I", "J", "K", "L", "M", "N", "O", "P", "Q", "R", "S", "T", "U", "V", "W", "X", "Y", "Z">>
LowerCase == <<"a", "b", "c", "d", "e", "f", "g", "h", "i", "j", "k", "l", "m", "n", "o", "p", "q", "r", "s", "t", "u", "v", "w", "x", "y", "z">>


\* str.lower()
LowerMap == [ch \in {UpperCase[i] : i \in 1..Len(UpperCase)} |->
               LowerCase[CHOOSE i \in 1..Len(UpperCase) : UpperCase[i] = ch]]
LowerChar(ch) == IF ch \in DOMAIN LowerMap THEN LowerMap[ch] ELSE ch
StrLower(s) == [i \in 1..Len(s) |-> LowerChar(s[i])]

\* the substrings of s
Substrings(s) == {SubSeq(s, a, b) : a \in 1..(Len(s) + 1), b \in 0..Len(s)}

\* s[:n]
Take(s, n) == SubSeq(s, 1, IF Len(s) < n THEN Len(s) ELSE n)

\* _route_by_role: role_keywords, in the order of the dict
RoleKeywords == <<
  [role |-> "researcher",
   keywords |-> <<<<"f", "i", "n", "d">>, <<"s", "e", "a", "r", "c", "h">>, <<"l", "o", "o", "k", "u", "p">>, <<"r", "e", "s", "e", "a", "r", "c", "h">>, <<"g", "a", "t", "h", "e", "r">>, <<"d", "i", "s", "c", "o", "v", "e", "r">>>>],
  [role |-> "coder",
   keywords |-> <<<<"i", "m", "p", "l", "e", "m", "e", "n", "t">>, <<"w", "r", "i", "t", "e">>, <<"c", "o", "d", "e">>, <<"f", "i", "x">>, <<"c", "r", "e", "a", "t", "e">>, <<"b", "u", "i", "l", "d">>, <<"d", "e", "v", "e", "l", "o", "p">>>>],
  [role |-> "reviewer",
   keywords |-> <<<<"r", "e", "v", "i", "e", "w">>, <<"c", "h", "e", "c", "k">>, <<"a", "n", "a", "l", "y", "z", "e">>, <<"a", "u", "d", "i", "t">>, <<"i", "n", "s", "p", "e", "c", "t">>, <<"e", "v", "a", "l", "u", "a", "t", "e">>>>],
  [role |-> "planner",
   keywords |-> <<<<"p", "l", "a", "n">>, <<"d", "e", "s", "i", "g", "n">>, <<"a", "r", "c", "h", "i", "t", "e", "c", "t">>, <<"s", "t", "r", "u", "c", "t", "u", "r", "e">>, <<"o", "r", "g", "a", "n", "i", "z", "e">>>>],
  [role |-> "tester",
   keywords |-> <<<<"t", "e", "s", "t">>, <<"v", "e", "r", "i", "f", "y">>, <<"v", "a", "l", "i", "d", "a", "t", "e">>, <<"q", "a">>, <<"q", "u", "a", "l", "i", "t", "y">>>>],
  [role |-> "deployer",
   keywords |-> <<<<"d", "e", "p", "l", "o", "y">>, <<"r", "e", "l", "e", "a", "s", "e">>, <<"p", "u", "b", "l", "i", "s", "h">>, <<"s", "h", "i", "p">>, <<"l", "a", "u", "n", "c", "h">>>>]>>


RouterTasks == {<<"F", "i", "x", " ", "t", "h", "e", " ", "c", "o", "d", "e">>,
                <<"f", "i", "n", "d", " ", "q", "a">>,
                <<"b", "u", "i", "l", "d">>,
                <<"p", "l", "e", "a", "s", "e", " ", "r", "e", "v", "i", "e", "w">>,
                <<"h", "e", "l", "l", "o">>,
                <<"p", "r", "e", "f", "i", "x">>,
                <<"Q", "A">>,
                <<"S", "e", "a", "r", "c", "h", ",", " ", "f", "i", "n", "d", ",", " ", "F", "I", "X", " ", "t", "h", "e", " ", "b", "u", "i", "l", "d", " ", "c", "o", "d", "e">>}


\* the tasks that execute() is called with
ExecuteTasks == {<<"F", "i", "x", " ", "t", "h", "e", " ", "c", "o", "d", "e">>,
                 <<"h", "e", "l", "l", "o">>,
                 <<"p", "l", "e", "a", "s", "e", " ", "r", "e", "v", "i", "e", "w">>}

\* tasks that no keyword of a registered worker occurs in, for the role table
RoleTasks == {<<"L", "o", "o", "k", "u", "p", " ", "a", "n", "d", " ", "r", "e", "v", "i", "e", "w">>,
              <<"p", "l", "e", "a", "s", "e", " ", "r", "e", "v", "i", "e", "w">>,
              <<"f", "i", "n", "d", " ", "q", "a">>,
              <<"h", "e", "l", "l", "o">>}

\* the substrings of the lowered tasks, computed once
TaskSubstrings == [t \in {StrLower(x) : x \in RouterTasks \cup RoleTasks} |-> Substrings(t)]

\* sub in s, for a lowered task s
Contains(sub, s) == sub \in TaskSubstrings[s]

\* the register() calls that are made: name, keywords, the agent's role, model_tier
Registrations == {
  [name |-> "researcher", keywords |-> <<<<"f", "i", "n", "d">>, <<"s", "e", "a", "r", "c", "h">>>>, role |-> "researcher", model_tier |-> "fast"],
  [name |-> "coder", keywords |-> <<<<"F", "i", "x">>, <<"c", "o", "d", "e">>, <<"b", "u", "i", "l", "d">>>>, role |-> "coder", model_tier |-> "premium"],
  [name |-> "reviewer", keywords |-> <<>>, role |-> "reviewer", model_tier |-> "standard"]}

\* register() calls with two workers of one role: BaseAgent.role is the agent's, not the
\* name's
RoleRegistrations == {
  [name |-> "researcher", keywords |-> <<<<"f", "i", "n", "d">>, <<"s", "e", "a", "r", "c", "h">>>>, role |-> "researcher", model_tier |-> "fast"],
  [name |-> "reviewer", keywords |-> <<>>, role |-> "reviewer", model_tier |-> "standard"],
  [name |-> "auditor", keywords |-> <<>>, role |-> "reviewer", model_tier |-> "premium"]}

RouteDecision(agent_name, confidence, reason, model_tier) ==
  [agent_name |-> agent_name, confidence |-> confidence, reason |-> reason,
   model_tier |-> model_tier]

\* route raised ValueError
RouteError == [error |-> "No agent available to handle task"]

NoRoute == [called |-> FALSE, task |-> <<>>, decision |-> NoResult]

RtInit ==
  /\ r_names = <<>>
  /\ r_keywords = EmptyDict
  /\ r_roles = EmptyDict
  /\ r_tiers = EmptyDict
  /\ r_default \in {None, "researcher"}
  /\ r_threshold \in {NoThreshold, (7 * ConfidenceScale) \div 10}
  /\ r_history = <<>>
  /\ r_last = NoRoute
  /\ r_exec = NoResult

\* register
RtRegister(reg) ==
  /\ UNCHANGED rtOthers
  /\ r_names' = IF reg.name \in Range(r_names) THEN r_names ELSE Append(r_names, reg.name)
  /\ r_keywords' = (reg.name :> reg.keywords) @@ r_keywords
  /\ r_roles' = (reg.name :> reg.role) @@ r_roles
  /\ r_tiers' = (reg.name :> reg.model_tier) @@ r_tiers
  /\ r_default' = IF r_default = None THEN reg.name ELSE r_default
  /\ r_last' = NoRoute
  /\ UNCHANGED <<r_threshold, r_history, r_exec>>

Without(f, key) == [k \in DOMAIN f \ {key} |-> f[k]]

\* unregister
RtUnregister(name) ==
  /\ UNCHANGED rtOthers
  /\ IF name \in Range(r_names)
     THEN /\ r_names' = SelectSeq(r_names, LAMBDA n : n # name)
          /\ r_keywords' = Without(r_keywords, name)
          /\ r_roles' = Without(r_roles, name)
          /\ r_tiers' = Without(r_tiers, name)
     ELSE UNCHANGED <<r_names, r_keywords, r_roles, r_tiers>>
  /\ r_last' = NoRoute
  /\ UNCHANGED <<r_default, r_threshold, r_history, r_exec>>

\* route, lines 130-143: number of the keywords found in the lowered task
Matched(keywords, task_lower) ==
  Cardinality({i \in 1..Len(keywords) : Contains(StrLower(keywords[i]), task_lower)})

\* route, lines 139-143: the score of one worker, times ConfidenceScale
Score(keywords, task_lower) ==
  IF Len(keywords) = 0 THEN 0
  ELSE (Matched(keywords, task_lower) * ConfidenceScale) \div Len(keywords)

\* self._tiers.get(name, "standard")
TierOf(tiers, name) == IF name \in DOMAIN tiers THEN tiers[name] ELSE "standard"

\* a maximum that keeps the last of the workers with the greatest score
BestAgent_LastOnTie(names, keywords, task_lower) ==
  names[CHOOSE i \in 1..Len(names) :
          /\ \A j \in 1..Len(names) :
               Score(keywords[names[j]], task_lower) <= Score(keywords[names[i]], task_lower)
          /\ \A j \in (i + 1)..Len(names) :
               Score(keywords[names[j]], task_lower) < Score(keywords[names[i]], task_lower)]

\* max(scores, key=scores.get): the first key, in dict order, with the greatest score
BestAgent(names, keywords, task_lower) ==
  names[CHOOSE i \in 1..Len(names) :
          /\ \A j \in 1..Len(names) :
               Score(keywords[names[j]], task_lower) <= Score(keywords[names[i]], task_lower)
          /\ \A j \in 1..(i - 1) :
               Score(keywords[names[j]], task_lower) < Score(keywords[names[i]], task_lower)]

\* a walk of the role table that answers with the last registered worker of the role
RouteByRole_LastWorker(names, roles, tiers, task_lower) ==
  LET Workers(r) == {n \in 1..Len(names) : roles[names[n]] = RoleKeywords[r].role}
      Found(r) == {k \in 1..Len(RoleKeywords[r].keywords) :
                     Contains(RoleKeywords[r].keywords[k], task_lower)}
      hits == {r \in 1..Len(RoleKeywords) : Workers(r) # {} /\ Found(r) # {}}
  IN IF hits = {} THEN NoResult
     ELSE LET r == CHOOSE x \in hits : \A y \in hits : x <= y
              k == CHOOSE x \in Found(r) : \A y \in Found(r) : x <= y
              n == CHOOSE x \in Workers(r) : \A y \in Workers(r) : x >= y
          IN RouteDecision(names[n], (6 * ConfidenceScale) \div 10,
                           <<"Matched role ", RoleKeywords[r].role, " via keyword '">>
                             \o RoleKeywords[r].keywords[k] \o <<"'">>,
                           TierOf(tiers, names[n]))

\* _route_by_role: the first role of the table, then its first keyword, for which a
\* keyword is found in the task and a worker of the role is registered; then the first
\* such worker in dict order
RouteByRole(names, roles, tiers, task_lower) ==
  LET Workers(r) == {n \in 1..Len(names) : roles[names[n]] = RoleKeywords[r].role}
      Found(r) == {k \in 1..Len(RoleKeywords[r].keywords) :
                     Contains(RoleKeywords[r].keywords[k], task_lower)}
      hits == {r \in 1..Len(RoleKeywords) : Workers(r) # {} /\ Found(r) # {}}
  IN IF hits = {} THEN NoResult
     ELSE LET r == CHOOSE x \in hits : \A y \in hits : x <= y
              k == CHOOSE x \in Found(r) : \A y \in Found(r) : x <= y
              n == CHOOSE x \in Workers(r) : \A y \in Workers(r) : x <= y
          IN RouteDecision(names[n], (6 * ConfidenceScale) \div 10,
                           <<"Matched role ", RoleKeywords[r].role, " via keyword '">>
                             \o RoleKeywords[r].keywords[k] \o <<"'">>,
                           TierOf(tiers, names[n]))

\* min(best_score * 2, 1.0)
KeywordConfidence(score) ==
  IF 2 * score < ConfidenceScale THEN 2 * score ELSE ConfidenceScale

\* a route that raises as soon as neither keywords nor roles match, default or not
FreshRoute_NoDefault(task, names, keywords, roles, tiers, default_agent) ==
  LET task_lower == StrLower(task)
      best_agent == BestAgent(names, keywords, task_lower)
      role_decision == RouteByRole(names, roles, tiers, task_lower)
  IN IF Len(names) > 0 /\ Score(keywords[best_agent], task_lower) > 0
     THEN RouteDecision(best_agent,
                        KeywordConfidence(Score(keywords[best_agent], task_lower)),
                        <<"Matched keywords for ", best_agent>>,
                        TierOf(tiers, best_agent))
     ELSE IF role_decision # NoResult THEN role_decision
     ELSE RouteError

\* LLMRouter.route without a custom router
FreshRoute(task, names, keywords, roles, tiers, default_agent) ==
  LET task_lower == StrLower(task)
      best_agent == BestAgent(names, keywords, task_lower)
      role_decision == RouteByRole(names, roles, tiers, task_lower)
  IN IF Len(names) > 0 /\ Score(keywords[best_agent], task_lower) > 0
     THEN RouteDecision(best_agent,
                        KeywordConfidence(Score(keywords[best_agent], task_lower)),
                        <<"Matched keywords for ", best_agent>>,
                        TierOf(tiers, best_agent))
     ELSE IF role_decision # NoResult THEN role_decision
     ELSE IF default_agent # None
     THEN RouteDecision(default_agent, (3 * ConfidenceScale) \div 10,
                        <<"Using default agent">>, TierOf(tiers, default_agent))
     ELSE RouteError

\* a route that answers from the routing history when the task was routed before
BaseRoute_Cached(task, names, keywords, roles, tiers, default_agent) ==
  LET hits == {i \in 1..Len(r_history) : r_history[i].task = Take(task, HistoryTaskLen)}
  IN IF hits # {}
     THEN LET e == r_history[CHOOSE i \in hits : TRUE]
          IN RouteDecision(e.decision, e.confidence, e.reason, "standard")
     ELSE FreshRoute(task, names, keywords, roles, tiers, default_agent)

\* route, lines 126-172
BaseRoute(task, names, keywords, roles, tiers, default_agent) ==
  FreshRoute(task, names, keywords, roles, tiers, default_agent)

\* a downgrade that goes straight to the cheapest tier
Downgrade_ToFast(decision, cost_threshold) ==
  IF decision.confidence < cost_threshold
  THEN [decision EXCEPT !.model_tier = "fast"]
  ELSE decision

\* CostOptimizedRouter.route, lines 286-290
Downgrade(decision, cost_threshold) ==
  IF decision.confidence < cost_threshold
  THEN [decision EXCEPT !.model_tier = IF @ = "premium" THEN "standard"
                                       ELSE IF @ = "standard" THEN "fast" ELSE @]
  ELSE decision

\* route of the router that was constructed
Route(task, names, keywords, roles, tiers, default_agent, threshold) ==
  LET decision == BaseRoute(task, names, keywords, roles, tiers, default_agent)
  IN IF decision = RouteError \/ threshold = NoThreshold THEN decision
     ELSE Downgrade(decision, threshold)

\* a direct call of route(task)
RtRoute(task) ==
  /\ UNCHANGED rtOthers
  /\ r_last' = [called |-> TRUE, task |-> task,
                decision |-> Route(task, r_names, r_keywords, r_roles, r_tiers, r_default,
                                   r_threshold)]
  /\ UNCHANGED <<r_names, r_keywords, r_roles, r_tiers, r_default, r_threshold, r_history,
                 r_exec>>

RoutingError(agent_name) ==
  AgentResult(FALSE, "Routing error", EmptyDict,
              <<"Agent '" \o agent_name \o "' not found">>, None, NoMeta)

\* execute: route, log, look the worker up, run it, attach the routing metadata; an
\* exception of route or of the worker is not caught in the method
RtExecute(task, kind) ==
  /\ UNCHANGED rtOthers
  /\ Len(r_history) < MaxHistory
  /\ LET decision == Route(task, r_names, r_keywords, r_roles, r_tiers, r_default,
                           r_threshold)
     IN /\ IF decision = RouteError
           THEN /\ kind = "ok"
                /\ r_exec' = [raised |-> RouteError.error]
                /\ UNCHANGED r_history
           ELSE /\ r_history' = Append(r_history,
                                       [task |-> Take(task, HistoryTaskLen),
                                        decision |-> decision.agent_name,
                                        confidence |-> decision.confidence,
                                        reason |-> decision.reason])
                /\ IF decision.agent_name \notin Range(r_names)
                   THEN kind = "ok" /\ r_exec' = RoutingError(decision.agent_name)
                   ELSE IF kind = "raise"
                   THEN r_exec' = [raised |-> ExcMessage(decision.agent_name)]
                   ELSE r_exec' = SetMeta(WorkerResult(decision.agent_name, kind, None,
                                                       EmptyDict),
                                          "routing",
                                          [chosen_agent |-> decision.agent_name,
                                           confidence |-> decision.confidence,
                                           reason |-> decision.reason,
                                           model_tier |-> decision.model_tier])
  /\ UNCHANGED <<r_names, r_keywords, r_roles, r_tiers, r_default, r_threshold, r_last>>

RtNext ==
  \/ \E reg \in Registrations : RtRegister(reg)
  \/ \E name \in {"researcher", "coder", "reviewer"} : RtUnregister(name)
  \/ \E task \in RouterTasks : RtRoute(task)
  \/ \E task \in ExecuteTasks, kind \in OutcomeKinds : RtExecute(task, kind)

\* a router whose workers share a role, routing the tasks of the role table
RtRoleNext ==
  \/ \E reg \in RoleRegistrations : RtRegister(reg)
  \/ \E name \in {"researcher", "reviewer", "auditor"} : RtUnregister(name)
  \/ \E task \in RoleTasks : RtRoute(task)

\* the patterns that a specification does not exercise stay as constructed
EmptyContext == ContextValue("task", <<>>, EmptyDict, 0)
ParIdle == ParConstructed(0) /\ PN = 0 /\ p_failFast = FALSE
SeqIdle == SeqConstructed(1) /\ Len(s_stages) = 0 /\ s_stop = TRUE
                            /\ s_call[1].callerCtx = EmptyContext
HoIdle == HoConstructed /\ h_registry = {"planner"} /\ h_call.ctx = EmptyContext
SupIdle == SupConstructed(1) /\ Len(u_workers) = 0 /\ u_maxIter = 0 /\ u_default = TRUE
                            /\ u_call[1].ctx = EmptyContext
ToolIdle == ToolInit
RtIdle == RtInit /\ r_default = None /\ r_threshold = NoThreshold

InitParallel == ParInit /\ SeqIdle /\ HoIdle /\ SupIdle /\ ToolIdle /\ RtIdle
SpecParallel == InitParallel /\ [][ParNext]_vars

\* the event loop runs what is ready and its timers fire; a worker may never finish
ParFairness ==
  /\ WF_vars(ParStartEmpty)
  /\ WF_vars(ParStart)
  /\ WF_vars(GatherDone)
  /\ WF_vars(ParTimeout)
  /\ WF_vars(FailFastTimeout)
  /\ WF_vars(\E order \in UNION {InjectiveSeqs(S, Cardinality(S)) : S \in SUBSET (1..PN)} :
               FailFastWake(order))
SpecParallelLive == SpecParallel /\ ParFairness

InitParallelCtx == ParCtxInit /\ SeqIdle /\ HoIdle /\ SupIdle /\ ToolIdle /\ RtIdle
SpecParallelCtx == InitParallelCtx /\ [][ParCtxNext]_vars

InitSequential == SeqInit /\ ParIdle /\ HoIdle /\ SupIdle /\ ToolIdle /\ RtIdle
SpecSequential == InitSequential /\ [][SeqNext]_vars

InitHandoff == HoInit /\ ParIdle /\ SeqIdle /\ SupIdle /\ ToolIdle /\ RtIdle
SpecHandoff == InitHandoff /\ [][HoNext]_vars

InitSupervisor == SupInit /\ ParIdle /\ SeqIdle /\ HoIdle /\ ToolIdle /\ RtIdle
SpecSupervisor == InitSupervisor /\ [][SupNext]_vars

InitSupervisedTasks == DefaultSupervisor /\ ParIdle /\ SeqIdle /\ HoIdle /\ ToolIdle /\ RtIdle
SpecSupervisedTasks == InitSupervisedTasks /\ [][SupTaskNext]_vars

InitSharedPipeline == DefaultPipeline /\ ParIdle /\ HoIdle /\ SupIdle /\ ToolIdle /\ RtIdle
SpecSharedPipeline == InitSharedPipeline /\ [][SeqSharedNext]_vars

SpecHandoffReuse == InitHandoff /\ [][HoReuseNext]_vars

InitSequentialRefs == SeqRefInit /\ ParIdle /\ HoIdle /\ SupIdle /\ ToolIdle /\ RtIdle
SpecSequentialRefs == InitSequentialRefs /\ [][SeqRefNext]_vars

InitTool == ToolInit /\ ParIdle /\ SeqIdle /\ HoIdle /\ SupIdle /\ RtIdle
SpecTool == InitTool /\ [][ToolNext]_vars

InitRouter == RtInit /\ ParIdle /\ SeqIdle /\ HoIdle /\ SupIdle /\ ToolIdle
SpecRouter == InitRouter /\ [][RtNext]_vars
SpecRoleRouter == InitRouter /\ [][RtRoleNext]_vars

\* the three patterns that thread one context through their workers, one run at a time:
\* a run of one pattern touches nothing of the two others, so a behaviour holds the run
\* of a single pattern, on any of the constructions of that pattern
HoQuiet == h_call.pc = "idle"
SupQuiet == \A c \in DOMAIN u_call : u_call[c].pc = "idle"
SeqQuiet == \A c \in DOMAIN s_call : s_call[c].pc = "idle"

InitThreaded ==
  /\ ParIdle /\ ToolIdle /\ RtIdle
  /\ \/ HoInit /\ SupIdle /\ SeqIdle
     \/ HoIdle /\ SupInit /\ SeqIdle
     \/ HoIdle /\ SupIdle /\ SeqInit

HoRun == SupQuiet /\ SeqQuiet /\ HoNext
SupRun == HoQuiet /\ SeqQuiet /\ SupNext
SeqRun == HoQuiet /\ SupQuiet /\ SeqNext

ThreadedNext == HoRun \/ SupRun \/ SeqRun

SpecThreaded == InitThreaded /\ [][ThreadedNext]_vars

(***************************************************************************)
(* The properties.                                                         *)
(***************************************************************************)

\* C1: without fail_fast and without a timeout, the list handed to the aggregator has one
\* entry per registered worker; entry i is labelled with the i-th registered name and is
\* the result of the i-th branch, in whatever order the branches completed
C1_ParallelCompleteness ==
  (p_pc = "returned" /\ ~p_failFast /\ p_aggCalled) =>
     /\ Len(p_aggInput) = PN
     /\ \A i \in 1..PN :
          /\ p_aggInput[i].metadata.agent_name = p_names[i]
          /\ p_aggInput[i].output = p_taskResult[i].output
          /\ p_aggInput[i].success = p_taskResult[i].success

\* two branches, the second completed first, one raised and the other succeeded
C1_Witness ==
  /\ p_pc = "returned" /\ ~p_failFast /\ p_aggCalled
  /\ PN = 2 /\ p_order = <<2, 1>>
  /\ p_aggInput[1].output = "Agent " \o p_names[1] \o " raised exception"
  /\ p_aggInput[2].success

\* C2: with fail_fast, when execute has returned, every branch that had not completed is
\* cancelled and its slot holds the placeholder failure labelled with its own name,
\* whatever its worker produces afterwards
C2_FailFastCancelled ==
  (p_pc = "returned" /\ p_failFast) =>
     \A i \in 1..PN :
        p_status[i] # "completed" =>
           /\ p_status[i] = "cancelled"
           /\ p_aggInput[i] = CancelledResult(p_names[i])
           /\ p_aggInput[i].output = "Cancelled due to fail-fast"

\* a cancelled branch whose worker went on to produce a result of its own
C2_Witness ==
  /\ p_pc = "returned" /\ p_failFast /\ p_aggCalled
  /\ \E i \in 1..PN :
       /\ p_status[i] = "cancelled"
       /\ p_taskResult[i] # NoResult
       /\ p_taskResult[i].success
       /\ p_aggInput[i].metadata.agent_name = p_names[i]

\* C3: while the branches run, the context of every branch, read by value, is what it
\* was given changed by that branch's own mutations only
C3_ValueIsolation ==
  p_pc = "waiting" =>
     \A i \in 1..PN :
        p_status[i] = "running" =>
           View(p_ctx[i], p_lists, p_dicts, p_cells) = p_expect[i]

\* C4: with stop_on_failure, once stage i is the first stage to fail, the call has
\* returned, it ran exactly the stages 1..i, the log has i entries, and the result is the
\* failure naming stage i and "Pipeline stopped at stage i/k"
C4_SequentialShortCircuit ==
  \A c \in DOMAIN s_call :
     \A i \in 1..Len(s_call[c].all_results) :
        (/\ s_stop
         /\ ~s_call[c].all_results[i].success
         /\ \A j \in 1..(i - 1) : s_call[c].all_results[j].success) =>
           /\ s_call[c].pc = "returned"
           /\ s_call[c].ran = [j \in 1..i |-> j]
           /\ Len(s_execLog) = i
           /\ Len(s_call[c].ret.metadata.execution_log) = i
           /\ s_call[c].ret.success = FALSE
           /\ "failed_stage" \in DOMAIN s_call[c].ret.data
           /\ s_call[c].ret.data.failed_stage = s_stages[i]
           /\ \E e \in 1..Len(s_call[c].ret.errors) :
                s_call[c].ret.errors[e] =
                  "Pipeline stopped at stage " \o ToString(i) \o "/"
                    \o ToString(Len(s_stages))

\* three stages, the second one returned success=False
C4_Witness ==
  /\ s_stop /\ Len(s_stages) = 3 /\ s_call[1].pc = "returned"
  /\ Len(s_call[1].all_results) = 2
  /\ s_call[1].all_results[1].success
  /\ s_call[1].all_results[2].errors = <<"error of " \o s_stages[2]>>
  /\ s_call[1].ret.errors[Len(s_call[1].ret.errors)] = "Pipeline stopped at stage 2/3"

\* C5: one call of execute_with_handoff executes at most max_handoffs + 1 workers
C5_HandoffBound ==
  Len(h_call.executed) <= h_call.max_handoffs + 1

\* a chain in which a worker hands off to itself until the loop gives up
C5_Witness ==
  /\ h_call.pc = "returned"
  /\ h_call.ret = MaxHandoffsResult(h_call.max_handoffs)
  /\ Len(h_call.executed) = 2
  /\ h_call.executed[1] = h_call.executed[2]

\* C6: one call of SupervisorPattern.execute invokes workers at most max_iterations
\* times, the value max_iterations had when the call started
C6_SupervisorBound ==
  \A c \in DOMAIN u_call : Len(u_call[c].invoked) <= u_call[c].max_at_start

\* a run that used every pass, the first of them on a worker that failed and was retried
C6_Witness ==
  /\ u_call[1].pc = "returned"
  /\ u_call[1].max_at_start = 3
  /\ Len(u_call[1].invoked) = 3
  /\ u_call[1].ret = MaxIterationsResult(3)
  /\ ~u_call[1].ctx.previous_results[Len(u_call[1].ctx.previous_results) - 2].success

\* C7: a call of route changes nothing in the router, and while the registrations stay
\* as they are two calls of route with the same task give the same decision
C7_RouterDeterministic ==
  [][/\ (r_last.called /\ r_last'.called /\ r_last'.task = r_last.task) =>
          r_last'.decision = r_last.decision
     /\ (r_last'.called /\ r_last' # r_last) =>
          UNCHANGED <<r_names, r_keywords, r_roles, r_tiers, r_default, r_threshold,
                      r_history>>]_vars

\* route called on a cost-optimized router with two workers, after an execute of the
\* same task was logged
C7_Witness ==
  /\ r_last.called /\ Len(r_names) >= 2 /\ r_threshold # NoThreshold
  /\ Len(r_history) > 0
  /\ r_history[1].task = r_last.task
  /\ r_last.decision # RouteError
  /\ r_last.decision.model_tier = "premium"

\* C8: an exception of a worker never leaves SupervisorPattern.execute
C8_SupervisorCatches ==
  \A c \in DOMAIN u_call : u_call[c].pc # "raised"

\* C9: an exception of a worker never leaves execute_with_handoff
C9_HandoffAlwaysReturns ==
  h_call.pc # "raised"

\* the text that "; ".join gives for the error lists the workers report
JoinedErrors(errors) ==
  IF errors = <<>> THEN ""
  ELSE IF errors = <<"e1">> THEN "e1"
  ELSE "e1; e2"

\* C10: a call of an AgentAsTool never raises because of the worker; it gives the output
\* of a successful result, "Agent failed: " and the joined errors of a failed one, and
\* "Agent error: " and the message of an exception
C10_ToolNeverRaises ==
  /\ t_pc # "raised"
  /\ t_pc = "returned" =>
       /\ t_last.kind = "ok" => t_last.ret = t_last.result.output
       /\ t_last.kind = "fail" =>
            t_last.ret = "Agent failed: " \o JoinedErrors(t_last.result.errors)
       /\ t_last.kind = "raise" => t_last.ret = "Agent error: exception in tool"

\* a failed result with two errors
C10_Witness ==
  /\ t_pc = "returned" /\ t_last.kind = "fail"
  /\ t_last.result.errors = <<"e1", "e2">>
  /\ t_last.ret = "Agent failed: e1; e2"

\* C11: without fail_fast, a branch whose worker raised is reported as a failure that
\* holds the exception message and the branch's name; every sibling completed and its own
\* result is in the aggregate, so the default aggregator gives success=False and an
\* output with a "## <name>" section for every branch
C11_RaisingBranchContained ==
  (p_pc = "returned" /\ ~p_failFast /\ p_aggCalled) =>
     \A i \in 1..PN :
        p_taskResult[i].output = "Agent " \o p_names[i] \o " raised exception" =>
           /\ p_aggInput[i].success = FALSE
           /\ p_aggInput[i].errors = <<ExcMessage(p_names[i])>>
           /\ p_aggInput[i].metadata.agent_name = p_names[i]
           /\ \A j \in 1..PN : p_status[j] = "completed"
           /\ Len(p_aggInput) = PN
           /\ \A j \in (1..PN) \ {i} :
                /\ p_aggInput[j].output = p_taskResult[j].output
                /\ p_aggInput[j].success = p_taskResult[j].success
                /\ p_aggInput[j].errors = p_taskResult[j].errors
           /\ p_ret.success = FALSE
           /\ \E e \in 1..Len(p_ret.errors) : p_ret.errors[e] = ExcMessage(p_names[i])
           /\ p_ret.output =
                Join([j \in 1..PN |-> "## " \o p_names[j] \o "\n" \o p_taskResult[j].output],
                     "\n\n")

\* two workers, the second raised, the first succeeded: one error, both sections
C11_Witness ==
  /\ p_pc = "returned" /\ ~p_failFast /\ p_aggCalled /\ PN = 2
  /\ p_taskResult[1].success
  /\ p_taskResult[2].output = "Agent " \o p_names[2] \o " raised exception"
  /\ Len(p_ret.errors) = 1
  /\ p_ret.output = "## " \o p_names[1] \o "\noutput of " \o p_names[1] \o "\n\n## "
                      \o p_names[2] \o "\nAgent " \o p_names[2] \o " raised exception"

\* C12: a stage whose worker raised is a failed stage with errors = [message], tagged
\* with stage_name and stage_index and logged; with stop_on_failure the call returns
\* there with the "Pipeline stopped" failure, without it every later stage still runs
C12_RaisingStageIsFailure ==
  \A c \in DOMAIN s_call :
     \A i \in 1..Len(s_call[c].all_results) :
        s_call[c].all_results[i].output = "Stage " \o s_stages[i] \o " raised exception" =>
           /\ s_call[c].all_results[i].success = FALSE
           /\ s_call[c].all_results[i].errors = <<ExcMessage(s_stages[i])>>
           /\ s_call[c].all_results[i].metadata.stage_name = s_stages[i]
           /\ s_call[c].all_results[i].metadata.stage_index = i - 1
           /\ Len(s_execLog) >= i
           /\ s_execLog[i] = [stage |-> s_stages[i], index |-> i - 1, success |-> FALSE,
                              output_preview |-> "Stage " \o s_stages[i] \o " raised exception"]
           /\ s_stop =>
                /\ s_call[c].pc = "returned"
                /\ s_call[c].ran = [j \in 1..i |-> j]
                /\ s_call[c].ret.success = FALSE
                /\ s_call[c].ret.errors =
                     <<ExcMessage(s_stages[i]),
                       "Pipeline stopped at stage " \o ToString(i) \o "/"
                         \o ToString(Len(s_stages))>>
           /\ ~s_stop =>
                /\ s_call[c].pc = "running" => s_call[c].idx = Len(s_call[c].all_results) + 1
                /\ s_call[c].pc = "returned" =>
                     s_call[c].ran = [j \in 1..Len(s_stages) |-> j]

\* three stages without stop_on_failure: the second raised and the third still ran
C12_Witness ==
  /\ ~s_stop /\ Len(s_stages) = 3 /\ s_call[1].pc = "returned"
  /\ s_call[1].all_results[2].output = "Stage " \o s_stages[2] \o " raised exception"
  /\ s_call[1].ran = <<1, 2, 3>>
  /\ s_call[1].all_results[3].success

\* C13: when the last worker named a next_agent that the registry does not know, the
\* call returns a result with success=False whose errors contain
\* "Handoff failed: agent '<name>' not found", whatever success the worker reported
C13_HandoffNotFoundFails ==
  (/\ h_call.pc = "returned"
   /\ Len(h_history) > 0
   /\ h_history[Len(h_history)].handoff_to # None
   /\ h_history[Len(h_history)].handoff_to \notin h_registry) =>
     /\ \E e \in 1..Len(h_call.ret.errors) :
          h_call.ret.errors[e] =
            "Handoff failed: agent '" \o h_history[Len(h_history)].handoff_to
              \o "' not found"
     /\ h_call.ret.success = FALSE

\* C14: the "Exceeded max handoffs" failure is returned only for a chain that needs more
\* than max_handoffs handoffs: the worker reached by the last allowed handoff has run,
\* max_handoffs + 1 workers in all, and it asked for one handoff more
C14_HandoffsAllowed ==
  (h_call.pc = "returned" /\ h_call.ret = MaxHandoffsResult(h_call.max_handoffs)) =>
     /\ Len(h_call.executed) = h_call.max_handoffs + 1
     /\ Len(h_history) > 0
     /\ h_history[Len(h_history)].handoff_to # None

\* C15: a run under the default policy that invoked k workers, 1 <= k <= max_iterations,
\* all of which succeeded, and after which the policy answers None, has returned the
\* compiled aggregate with success=True and not the "max iterations reached" failure
C15_IterationsAllowed ==
  \A c \in DOMAIN u_call :
     LET prev == u_call[c].ctx.previous_results
         k == Len(u_call[c].invoked)
     IN (/\ u_default /\ u_call[c].pc = "returned"
         /\ k >= 1 /\ k <= u_call[c].max_at_start
         /\ \A i \in 1..Len(prev) : prev[i].success
         /\ DefaultDecision(prev, u_workers) = None) =>
           /\ u_call[c].ret.success = TRUE
           /\ u_call[c].ret # MaxIterationsResult(u_call[c].max_at_start)
           /\ u_call[c].ret = SupCompileFinalResult(prev, u_execLog)

\* C16: under the default policy, in a pass of the loop that starts when the last result
\* carries a next_agent, the worker invoked is exactly the one named, used before or not;
\* a name that is not registered ends the run with "Worker '<name>' not found" and
\* nothing is invoked
C16_ExplicitHandoffWins ==
  [][\A c \in DOMAIN u_call :
       LET prev == u_call[c].ctx.previous_results
           name == prev[Len(prev)].next_agent
       IN (/\ u_default /\ u_call[c].pc = "loop" /\ u_call'[c] # u_call[c]
           /\ SupervisorContinue(u_call[c].iteration, u_maxIter)
           /\ Len(prev) > 0 /\ name # None) =>
             IF name \in Range(u_workers)
             THEN u_call'[c].invoked = Append(u_call[c].invoked, name)
             ELSE /\ u_call'[c].pc = "returned"
                  /\ u_call'[c].ret.success = FALSE
                  /\ u_call'[c].ret.errors = <<"Worker '" \o name \o "' not found">>
                  /\ u_call'[c].invoked = u_call[c].invoked]_vars

\* "coder" named itself and was run a second time, after every registered worker of the
\* canonical order had been used
C16_Witness ==
  /\ u_default /\ u_workers = <<"helper", "coder">>
  /\ u_call[1].invoked = <<"helper", "coder", "coder">>
  /\ u_call[1].ctx.previous_results[Len(u_call[1].ctx.previous_results) - 1].next_agent
       = "coder"

\* C17: without fail_fast, when the timeout elapsed before every branch had completed,
\* execute has returned the single failure with errors ["Timeout after <t>s"]; it holds
\* no entry of any branch and the aggregator was not called
C17_TimeoutCollapses ==
  (p_pc = "returned" /\ ~p_failFast /\ \E i \in 1..PN : p_status[i] = "cancelled") =>
     /\ p_ret.success = FALSE
     /\ p_ret.errors = <<"Timeout after 120.0s">>
     /\ p_ret.output = "Parallel execution timed out"
     /\ p_ret.data = EmptyDict
     /\ ~p_aggCalled
     /\ p_aggInput = <<>>

\* the timeout came when one of two branches had completed with a result of its own
C17_Witness ==
  /\ p_pc = "returned" /\ ~p_failFast /\ PN = 2
  /\ p_status = <<"completed", "cancelled">>
  /\ p_taskResult[1].success
  /\ p_ret.errors = <<"Timeout after 120.0s">>

\* no registered worker has a keyword in the task, no role of the table that has a
\* keyword in the task has a registered worker, and there is no default agent
NothingRoutes(task, names, keywords, roles, default_agent) ==
  /\ \A n \in 1..Len(names) :
       \A k \in 1..Len(keywords[names[n]]) :
          ~Contains(StrLower(keywords[names[n]][k]), StrLower(task))
  /\ \A r \in 1..Len(RoleKeywords) :
       \A k \in 1..Len(RoleKeywords[r].keywords) :
          Contains(RoleKeywords[r].keywords[k], StrLower(task)) =>
             \A n \in 1..Len(names) : roles[names[n]] # RoleKeywords[r].role
  /\ default_agent = None

\* C18: route raises exactly when nothing routes the task and gives a RouteDecision in
\* every other case; execute passes the error of route on to its caller and returns no
\* result for it
C18_RouteRaisesIffUnroutable ==
  [][/\ r_last'.called =>
          /\ (r_last'.decision = RouteError) <=>
               NothingRoutes(r_last'.task, r_names', r_keywords', r_roles', r_default')
          /\ r_last'.decision # RouteError =>
               /\ DOMAIN r_last'.decision =
                    {"agent_name", "confidence", "reason", "model_tier"}
               /\ r_last'.decision.agent_name # None
     /\ (r_exec' # r_exec \/ r_history' # r_history) =>
          /\ (\A t \in ExecuteTasks :
                NothingRoutes(t, r_names, r_keywords, r_roles, r_default)) =>
               /\ r_exec' = [raised |-> "No agent available to handle task"]
               /\ r_history' = r_history
          /\ r_exec' = [raised |-> "No agent available to handle task"] =>
               \E t \in ExecuteTasks :
                  NothingRoutes(t, r_names, r_keywords, r_roles, r_default)]_vars

\* on a router without registrations and without default, route raised and so did execute
C18_Witness ==
  /\ r_last.called /\ r_last.decision = RouteError
  /\ r_exec = [raised |-> "No agent available to handle task"]
  /\ r_names = <<>> /\ r_default = None

\* one step down the tiers: premium, standard, fast
OneTierDown(tier) ==
  IF tier = "premium" THEN "standard" ELSE IF tier = "standard" THEN "fast" ELSE tier

\* C19: the decision of CostOptimizedRouter.route has the agent_name, confidence and
\* reason of the base routing; its model_tier is the base tier one step down when the
\* confidence is below cost_threshold and the base tier otherwise
C19_CostDowngradeOneStep ==
  (r_last.called /\ r_threshold # NoThreshold /\ r_last.decision # RouteError) =>
     LET base == BaseRoute(r_last.task, r_names, r_keywords, r_roles, r_tiers, r_default)
         got == r_last.decision
     IN /\ got.agent_name = base.agent_name
        /\ got.confidence = base.confidence
        /\ got.reason = base.reason
        /\ base.model_tier = TierOf(r_tiers, base.agent_name)
        /\ got.model_tier = IF base.confidence < r_threshold
                            THEN OneTierDown(base.model_tier)
                            ELSE base.model_tier

\* a premium worker matched on one keyword of three is routed at the standard tier
C19_Witness ==
  /\ r_last.called /\ r_threshold # NoThreshold /\ r_last.decision # RouteError
  /\ r_last.decision.agent_name = "coder"
  /\ r_tiers["coder"] = "premium"
  /\ r_last.decision.confidence < r_threshold
  /\ r_last.decision.model_tier = "standard"

\* s is a prefix of t
IsPrefix(s, t) == Len(s) <= Len(t) /\ SubSeq(t, 1, Len(s)) = s

\* C20: in every step of a run of AgentHandoff, SupervisorPattern or SequentialAgents the
\* previous_results of the context for the next worker has the previous_results of the
\* context before the step as a prefix
C20_PreviousResultsAppendOnly ==
  [][/\ IsPrefix(h_call.ctx.previous_results, h_call'.ctx.previous_results)
     /\ \A c \in DOMAIN u_call :
          IsPrefix(u_call[c].ctx.previous_results, u_call'[c].ctx.previous_results)
     /\ \A c \in DOMAIN s_call :
          IsPrefix(s_call[c].ctx.previous_results, s_call'[c].ctx.previous_results)]_vars

\* the third stage of a pipeline is given the caller's earlier result and then the
\* results of the two stages before it
C20_Witness ==
  /\ s_call[1].pc = "running" /\ s_call[1].idx = 3
  /\ s_call[1].callerCtx.previous_results = <<PriorResult>>
  /\ Len(s_call[1].ctx.previous_results) = 3
  /\ s_call[1].ctx.previous_results[1] = PriorResult
  /\ s_call[1].ctx.previous_results[3] = s_call[1].all_results[2]

\* C21: a result that a worker returned keeps the success, output, data, errors and
\* next_agent the worker gave it: when execute_with_handoff returns the result of the
\* last worker it ran, these five fields are the worker's
C21_WorkerResultFieldsKept ==
  (/\ h_call.pc = "returned"
   /\ Len(h_call.executed) > 0
   /\ h_call.ret.output = "output of " \o h_call.executed[Len(h_call.executed)]) =>
     LET agent == h_call.executed[Len(h_call.executed)]
         last == h_history[Len(h_history)]
     IN /\ h_call.ret.success = last.success
        /\ h_call.ret.next_agent = last.handoff_to
        /\ h_call.ret.data = EmptyDict
        /\ h_call.ret.errors = IF last.success THEN <<>> ELSE <<"error of " \o agent>>

\* C22: with fail_fast, when execute has returned, every branch that had completed holds
\* its own result in its slot, and only the branches that were still pending hold the
\* "Cancelled due to fail-fast" placeholder
C22_CompletedKeepTheirResult ==
  (p_pc = "returned" /\ p_failFast /\ p_aggCalled) =>
     \A i \in 1..PN :
        p_status[i] = "completed" =>
           /\ p_aggInput[i].output = p_taskResult[i].output
           /\ p_aggInput[i].success = p_taskResult[i].success
           /\ p_aggInput[i].errors = p_taskResult[i].errors

\* C23: under the default policy, when the worker of the first pass returned
\* success=False and the run invokes a worker again, that worker is the one that failed
C23_RetrySameWorker ==
  \A c \in DOMAIN u_call :
     (/\ u_default
      /\ Len(u_execLog) >= 1 /\ ~u_execLog[1].success
      /\ Len(u_call[c].invoked) >= 2) =>
        u_call[c].invoked[2] = u_call[c].invoked[1]

\* C24: under the default policy, in a run where no result carries next_agent, no worker
\* is invoked twice, except that the second invocation may repeat the first one when the
\* first one failed
C24_CanonicalWalkNoRepeat ==
  \A c \in DOMAIN u_call :
     LET prev == u_call[c].ctx.previous_results
         invoked == u_call[c].invoked
     IN (u_default /\ \A i \in 1..Len(prev) : prev[i].next_agent = None) =>
          \A i, j \in 1..Len(invoked) :
             (i < j /\ invoked[i] = invoked[j]) =>
                (i = 1 /\ j = 2 /\ Len(u_execLog) >= 1 /\ ~u_execLog[1].success)

\* C25: with fail_fast, an execute that is waiting for its branches eventually returns,
\* also when a branch never completes and none has failed
C25_FailFastTimeoutReturns ==
  (p_pc = "waiting" /\ p_failFast) ~> (p_pc = "returned")

\* C26: in a supervisor run, a worker failure on a pass with iteration >= 1 is the last
\* invocation of the run and execute has returned that worker's failed result itself; a
\* run therefore holds at most two failed worker invocations
C26_RetryOnlyOnFirstPass ==
  \A c \in DOMAIN u_call :
    LET failed == {i \in 1..Len(u_execLog) : ~u_execLog[i].success}
        previous_results == u_call[c].ctx.previous_results
    IN /\ Cardinality(failed) <= 2
       /\ \A i \in failed :
            u_execLog[i].iteration >= 1 =>
              /\ i = Len(u_execLog)
              /\ u_call[c].pc = "returned"
              /\ Len(previous_results) > 0
              /\ u_call[c].ret = previous_results[Len(previous_results)]
              /\ ~u_call[c].ret.success
              /\ Len(u_call[c].invoked) = Len(u_execLog)

C26_Witness ==
  \E c \in DOMAIN u_call :
    /\ u_call[c].pc = "returned"
    /\ Len(u_execLog) = 2
    /\ ~u_execLog[1].success /\ ~u_execLog[2].success
    /\ u_execLog[2].iteration = 1
    /\ ~u_call[c].ret.success

\* C27: with concurrent supervised runs on the shared supervisor, every run invokes at
\* most as many workers as the max_iterations its own caller set
C27_OwnIterationBudget ==
  \A c \in DOMAIN u_call :
    u_call[c].pc # "idle" => Len(u_call[c].invoked) <= u_call[c].max_at_start

\* C28: with two concurrent calls on the shared pipeline, the execution_log in the
\* metadata a call returns holds exactly one entry per stage that this call ran, in
\* order
C28_OwnExecutionLog ==
  \A c \in DOMAIN s_call :
    (s_call[c].pc = "returned" /\ "execution_log" \in DOMAIN s_call[c].ret.metadata) =>
      LET log == s_call[c].ret.metadata.execution_log
          ran == s_call[c].ran
      IN /\ Len(log) = Len(ran)
         /\ \A i \in 1..Len(ran) :
              log[i] = LogEntry(s_stages[ran[i]], ran[i] - 1, s_call[c].all_results[i])

\* C29: whatever was registered and unregistered, a decision that route() returns names a
\* currently registered worker, and execute() does not end with "Agent '<name>' not found"
C29_RouteNamesRegistered ==
  /\ (r_last # NoRoute /\ r_last.decision # RouteError) =>
       r_last.decision.agent_name \in Range(r_names)
  /\ \A name \in {"researcher", "coder", "reviewer"} : r_exec # RoutingError(name)

\* the number of the keywords of the i-th registered worker that occur in the lowered task
KeywordHits(i, task) ==
  LET kws == r_keywords[r_names[i]]
  IN Cardinality({k \in 1..Len(kws) : Contains(StrLower(kws[k]), StrLower(task))})

KeywordCount(i) == Len(r_keywords[r_names[i]])

\* C30: route of a plain LLMRouter, when some worker has a keyword in the task, returns the
\* worker with the greatest hits/count ratio, the earliest registered one on a tie, with
\* confidence min(2 * ratio, 1) and the worker's registered tier, whatever the role table
\* and the default agent would have answered
C30_KeywordScoreWins ==
  (r_last # NoRoute /\ r_threshold = NoThreshold) =>
    LET task == r_last.task
        decision == r_last.decision
        positive == {i \in 1..Len(r_names) : KeywordHits(i, task) > 0}
    IN positive # {} =>
         /\ decision # RouteError
         /\ \E i \in positive :
              /\ decision.agent_name = r_names[i]
              /\ \A j \in positive :
                   KeywordHits(j, task) * KeywordCount(i)
                     <= KeywordHits(i, task) * KeywordCount(j)
              /\ \A j \in positive :
                   j < i => KeywordHits(j, task) * KeywordCount(i)
                              < KeywordHits(i, task) * KeywordCount(j)
              /\ decision.confidence * KeywordCount(i) =
                   IF 2 * KeywordHits(i, task) <= KeywordCount(i)
                   THEN 2 * KeywordHits(i, task) * ConfidenceScale
                   ELSE KeywordCount(i) * ConfidenceScale
              /\ decision.model_tier = r_tiers[r_names[i]]
              /\ decision.reason = <<"Matched keywords for ", r_names[i]>>

\* two workers tie on the greatest score, the earlier registered one is returned, and both
\* the role table and the default agent name the other one
C30_Witness ==
  /\ r_last # NoRoute /\ r_threshold = NoThreshold
  /\ Len(r_names) >= 2
  /\ KeywordHits(1, r_last.task) > 0
  /\ KeywordHits(1, r_last.task) * KeywordCount(2)
       = KeywordHits(2, r_last.task) * KeywordCount(1)
  /\ r_last.decision # RouteError
  /\ r_last.decision.agent_name = r_names[1]
  /\ r_default = r_names[2]
  /\ RouteByRole(r_names, r_roles, r_tiers, StrLower(r_last.task)) # NoResult
  /\ RouteByRole(r_names, r_roles, r_tiers, StrLower(r_last.task)).agent_name = r_names[2]

\* the roles of the table, by position, that have a keyword in the lowered task and a
\* registered worker
RolesThatMatch(task) ==
  {r \in 1..Len(RoleKeywords) :
     /\ \E k \in 1..Len(RoleKeywords[r].keywords) :
          Contains(RoleKeywords[r].keywords[k], StrLower(task))
     /\ \E n \in 1..Len(r_names) : r_roles[r_names[n]] = RoleKeywords[r].role}

\* C31: when no registered worker has a keyword in the task, route answers with the first
\* registered worker of the first role of the table that has a keyword in the lowered
\* task and a registered worker, at confidence 0.6; when there is no such role it answers
\* with the default agent at confidence 0.3
C31_RoleTableThenDefault ==
  (r_last # NoRoute /\ \A i \in 1..Len(r_names) : KeywordHits(i, r_last.task) = 0) =>
    LET decision == r_last.decision
        hits == RolesThatMatch(r_last.task)
    IN IF hits # {}
       THEN LET r == CHOOSE x \in hits : \A y \in hits : x <= y
                of_role == {n \in 1..Len(r_names) :
                              r_roles[r_names[n]] = RoleKeywords[r].role}
            IN /\ decision # RouteError
               /\ decision.agent_name = r_names[CHOOSE n \in of_role :
                                                  \A m \in of_role : n <= m]
               /\ decision.confidence = (6 * ConfidenceScale) \div 10
       ELSE r_default # None =>
              /\ decision # RouteError
              /\ decision.agent_name = r_default
              /\ decision.confidence = (3 * ConfidenceScale) \div 10

\* the researcher role has a keyword in the task and no worker, the reviewer role has two
\* workers, and the one registered first was returned although it is not the default
C31_Witness ==
  /\ r_last # NoRoute
  /\ r_names = <<"auditor", "reviewer">>
  /\ r_default = "researcher"
  /\ RolesThatMatch(r_last.task) = {3}
  /\ Contains(RoleKeywords[1].keywords[3], StrLower(r_last.task))
  /\ r_last.decision # RouteError
  /\ r_last.decision.agent_name = "auditor"
  /\ r_last.decision.confidence = (6 * ConfidenceScale) \div 10

\* C32: a pass of the supervisor loop that ends the run without invoking a worker and
\* without a failed lookup (the decision was None) returns the "No agents executed"
\* failure when previous_results is empty and otherwise success = AND of the successes
\* and errors = the errors of previous_results in order; a run that returns success has
\* no failed entry in previous_results
C32_CompiledFromAllResults ==
  [][\A c \in DOMAIN u_call :
       LET prev == u_call[c].ctx.previous_results
           ret == u_call'[c].ret
       IN /\ (/\ u_call[c].pc = "loop" /\ u_call'[c].pc = "returned"
              /\ u_call[c].iteration < u_maxIter
              /\ u_call'[c].invoked = u_call[c].invoked
              /\ ret.output # "Supervisor error") =>
               IF Len(prev) = 0
               THEN /\ ~ret.success
                    /\ ret.output = "No agents executed"
                    /\ ret.errors = <<"Supervisor completed without any agent execution">>
               ELSE /\ ret.success = (\A i \in 1..Len(prev) : prev[i].success)
                    /\ ret.errors = Concat([i \in 1..Len(prev) |-> prev[i].errors])
          /\ (u_call'[c].pc = "returned" /\ ret.success) =>
               \A i \in 1..Len(u_call'[c].ctx.previous_results) :
                  u_call'[c].ctx.previous_results[i].success]_vars

\* a run whose first worker failed and was followed by successful workers ended on a
\* None decision with success = FALSE and the error of the failure
C32_Witness ==
  \E c \in DOMAIN u_call :
    LET prev == u_call[c].ctx.previous_results
    IN /\ u_call[c].pc = "returned"
       /\ "agents_used" \in DOMAIN u_call[c].ret.metadata
       /\ Len(prev) >= 2
       /\ ~prev[1].success /\ prev[Len(prev)].success
       /\ ~u_call[c].ret.success
       /\ u_call[c].ret.errors = prev[1].errors
       /\ Len(u_call[c].invoked) = Len(prev)

\* C33: the stages of a pipeline run one at a time in list order, each position once; a
\* run of k >= 1 stages that does not short-circuit has run all k and returns success =
\* AND over the stages, errors = the stage errors in stage order, the output of the last
\* stage and stages_completed = total_stages = k
C33_AllStagesOnceInOrder ==
  \A c \in DOMAIN s_call :
    LET ran == s_call[c].ran
        results == s_call[c].all_results
        ret == s_call[c].ret
        k == Len(s_stages)
    IN /\ s_call[c].pc # "idle" =>
            /\ ran = [i \in 1..Len(ran) |-> i]
            /\ Len(results) = Len(ran)
            /\ \A i \in 1..Len(results) :
                 /\ results[i].metadata.stage_index = i - 1
                 /\ results[i].metadata.stage_name = s_stages[i]
       /\ s_call[c].pc = "running" => s_call[c].idx = Len(ran) + 1
       /\ (/\ s_call[c].pc = "returned" /\ k >= 1
           /\ (~s_stop \/ \A i \in 1..Len(results) : results[i].success)) =>
            /\ Len(ran) = k
            /\ ret.success = (\A i \in 1..k : results[i].success)
            /\ ret.errors = Concat([i \in 1..k |-> results[i].errors])
            /\ ret.output = results[k].output
            /\ "stages_completed" \in DOMAIN ret.metadata
            /\ ret.metadata.stages_completed = k
            /\ ret.metadata.total_stages = k

\* a run of three stages without stop_on_failure whose first stage failed and whose last
\* stage succeeded ran to the end
C33_Witness ==
  \E c \in DOMAIN s_call :
    /\ s_call[c].pc = "returned" /\ ~s_stop
    /\ Len(s_stages) = 3 /\ s_call[c].ran = <<1, 2, 3>>
    /\ ~s_call[c].all_results[1].success
    /\ s_call[c].all_results[3].success
    /\ ~s_call[c].ret.success
    /\ Len(s_call[c].ret.errors) >= 1

\* C34: the context a pipeline gives to stage j >= 2 has the caller's previous_results
\* followed by the results of stages 1..j-1 in order, a shared_state in which every key
\* has the value of the last of those stages whose data holds it and otherwise the
\* caller's value, and the task of the last of those stages' next_task, the caller's task
\* if there is none
C34_ContextOfLaterStage ==
  \A c \in DOMAIN s_call :
    (s_call[c].pc = "running" /\ s_call[c].idx >= 2) =>
      LET j == s_call[c].idx
          caller == s_call[c].callerCtx
          results == s_call[c].all_results
          ctx == s_call[c].ctx
          Holders(key) == {i \in 1..(j - 1) : key \in DOMAIN results[i].data}
          Latest(key) == CHOOSE i \in Holders(key) : \A m \in Holders(key) : m <= i
      IN /\ Len(results) = j - 1
         /\ ctx.previous_results = caller.previous_results \o results
         /\ DOMAIN ctx.shared_state =
              DOMAIN caller.shared_state
                \cup UNION {DOMAIN results[i].data : i \in 1..(j - 1)}
         /\ \A key \in DOMAIN ctx.shared_state :
              ctx.shared_state[key] =
                IF Holders(key) # {} THEN results[Latest(key)].data[key]
                ELSE caller.shared_state[key]
         /\ ctx.task = IF Holders("next_task") # {}
                       THEN results[Latest("next_task")].data["next_task"]
                       ELSE caller.task

\* the third stage is about to run: the first stage replaced a key of the caller's
\* shared_state and the second one set next_task
C34_Witness ==
  \E c \in DOMAIN s_call :
    /\ s_call[c].pc = "running" /\ s_call[c].idx = 3
    /\ Len(s_call[c].callerCtx.previous_results) = 1
    /\ s_call[c].callerCtx.shared_state["k1"] = "init"
    /\ s_call[c].all_results[1].data = [k1 |-> "v"]
    /\ s_call[c].all_results[2].data = [next_task |-> "retask"]
    /\ s_call[c].ctx.task = "retask"
    /\ s_call[c].ctx.shared_state["k1"] = "v"
    /\ s_call[c].ctx.shared_state["k0"] = "init"
    /\ Len(s_call[c].ctx.previous_results) = 3

\* C35: in a call of execute_with_handoff that performed h handoffs the caller's context
\* holds its earlier previous_results followed by the h results that signalled the
\* handoffs, in order, and its current_iteration has grown by h; the result that ends the
\* call is not appended
C35_ContextGrowsByHandoffs ==
  h_call.pc # "idle" =>
    LET caller == h_call.callerCtx
        ctx == h_call.ctx
        h == h_call.handoff_count
        before == Len(caller.previous_results)
    IN /\ Len(ctx.previous_results) = before + h
       /\ SubSeq(ctx.previous_results, 1, before) = caller.previous_results
       /\ ctx.current_iteration = caller.current_iteration + h
       /\ ctx.task = caller.task /\ ctx.shared_state = caller.shared_state
       /\ h <= Len(h_call.executed)
       /\ \A i \in 1..h :
            LET r == ctx.previous_results[before + i]
            IN /\ r.metadata.agent_name = h_call.executed[i]
               /\ r.next_agent # None /\ r.next_agent \in h_registry
               /\ i < Len(h_call.executed) => r.next_agent = h_call.executed[i + 1]
       /\ (h_call.pc = "returned" /\ h_call.ret.output # "Maximum handoffs reached") =>
            /\ Len(h_call.executed) = h + 1
            /\ h_call.ret.metadata.agent_name = h_call.executed[h + 1]

\* a call on a context with one earlier result handed off once and ended on a terminal
\* result
C35_Witness ==
  /\ h_call.pc = "returned"
  /\ h_call.handoff_count = 1
  /\ Len(h_call.callerCtx.previous_results) = 1
  /\ Len(h_call.ctx.previous_results) = 2
  /\ h_call.ctx.current_iteration = h_call.callerCtx.current_iteration + 1
  /\ h_call.ret.next_agent = None
  /\ Len(h_call.executed) = 2

\* C36: when a call of execute_with_handoff returns, get_handoff_chain() is the list of
\* the workers that this call executed, in order, also on an instance that served
\* earlier calls; clear_history() leaves the chain empty
C36_ChainOfThisCall ==
  [][/\ (h_call.pc = "loop" /\ h_call'.pc = "returned") => HandoffChain' = h_call'.executed
     /\ (h_call' = h_call /\ h_history' # h_history) => HandoffChain' = <<>>]_vars

ContainersChange(ctx) ==
  \/ p_lists'[ctx.previous_results] # p_lists[ctx.previous_results]
  \/ p_dicts'[ctx.shared_state] # p_dicts[ctx.shared_state]

\* C38: in every step of a parallel run the list and the dict of the caller's context hold
\* what they held before, a step that changes the list or the dict of one branch's
\* context changes those of no other branch, and no two contexts share a list or a dict
C38_ContainersIsolated ==
  [][/\ p_callerCtx' = p_callerCtx
     /\ ~ContainersChange(p_callerCtx)
     /\ \A i \in DOMAIN p_ctx \cap DOMAIN p_ctx' :
          /\ p_ctx'[i] = p_ctx[i]
          /\ ContainersChange(p_ctx[i]) =>
               \A j \in (DOMAIN p_ctx \cap DOMAIN p_ctx') \ {i} : ~ContainersChange(p_ctx[j])
     /\ \A i \in DOMAIN p_ctx' :
          /\ p_ctx'[i].previous_results # p_callerCtx.previous_results
          /\ p_ctx'[i].shared_state # p_callerCtx.shared_state
          /\ \A j \in DOMAIN p_ctx' \ {i} :
               /\ p_ctx'[i].previous_results # p_ctx'[j].previous_results
               /\ p_ctx'[i].shared_state # p_ctx'[j].shared_state]_vars

\* the call has returned; one branch appended to its previous_results and the other
\* removed a key of its shared_state, and the caller's containers are as they were
C38_Witness ==
  /\ p_pc = "returned" /\ PN = 2
  /\ Len(p_lists[p_ctx[1].previous_results]) > Len(p_lists[p_callerCtx.previous_results])
  /\ Len(p_lists[p_ctx[2].previous_results]) = Len(p_lists[p_callerCtx.previous_results])
  /\ DOMAIN p_dicts[p_ctx[2].shared_state] # DOMAIN p_dicts[p_callerCtx.shared_state]
  /\ DOMAIN p_dicts[p_ctx[2].shared_state] \subseteq DOMAIN p_dicts[p_callerCtx.shared_state]
  /\ DOMAIN p_dicts[p_ctx[1].shared_state] = DOMAIN p_dicts[p_callerCtx.shared_state]
  /\ Len(p_callerView.previous_results) = Len(p_lists[p_callerCtx.previous_results])
====
